---- MODULE Spec2Model ----
(***************************************************************************)
(* A model of the content engine of the Samla static site generator:       *)
(*   generator/cache.py              CacheManager (mtime-keyed cache)       *)
(*   generator/content_loader.py     ContentLoader (load cycle)             *)
(*   generator/shortcode_manager.py  ShortcodeManager (tag expander)        *)
(*   generator/shortcodes/*.py       the handlers                           *)
(*   generator/site_builder.py       SiteBuilder (index, links, pages)      *)
(*   generator/models.py             Review.star_string                     *)
(*                                                                         *)
(* Python values are records with a "kind" field.  Text is a sequence of   *)
(* lexemes (strings): the tag markers "{{<" and ">}}", "/", "=", quotes,    *)
(* blanks, words (runs of \w characters) and opaque HTML chunks.            *)
(***************************************************************************)
EXTENDS Integers, Sequences, FiniteSets, TLC

VARIABLES
    cache,      \* CacheManager.cache, the in-memory object (cache.py:10)
    disk,       \* the snapshot file .cache/markdown_cache.json
    got,        \* the last call of CacheManager.get and what it returned
    setLog,     \* the calls of CacheManager.set on this object, in order
    files,      \* the source files: key -> contents and st_mtime
    site,       \* the site context handed to ContentLoader (config.yaml)
    pc,         \* where the build process is; "idle" when none runs
    todo,       \* the sources load_content still has to visit
    posts,      \* load_content's list `posts`
    used,       \* per visited source: what _parse_post did with it
    start,      \* the snapshot file as the running build found it
    crash,      \* the last crash of a build process, if any
    builds,     \* number of builds started
    edits,      \* number of changes made to sources and configuration
    drafts,     \* include_drafts of the running build
    doc,        \* the text handed to ShortcodeManager.process
    typed,      \* number of pieces the text was put together from
    res,        \* what process returned for doc, once it has run
    argtext,    \* the argument text handed to _parse_args
    parsed,     \* what _parse_args returned for argtext, once it has run
    shortname_map, \* SiteBuilder.shortname_map, once build() has set it
    pending,    \* the posts build() still has to render
    pages,      \* the pages written to the output directory, in order
    page_url,   \* current_url of the page handed to _resolve_internal_links
    page_nodes, \* the nodes of that page
    page_out,   \* what _resolve_internal_links returned, once it has run
    idx_total,  \* len(posts) of the list handed to _render_index
    idx_per_page, \* config.posts_per_page
    idx_page,   \* page_num of the last turn of the loop of _render_index
    idx_pagination, \* the pagination context of that turn
    idx_written, \* page_posts of the index pages written so far, in order
    rel_posts,  \* SiteBuilder.all_posts
    rel_out,    \* the last call of _get_related_posts and what it returned
    review_rating, \* Review.rating, in tenths
    review_stars,  \* what Review.star_string returned, once it was read
    mail_doc, \* a text with email tags, handed to ShortcodeManager.process
    mail_runs, \* what process returned for mail_doc, build after build
    meta, \* post_data.metadata of one source, field by field
    now, \* the clock that datetime.now() reads
    cached_data, \* the cache entry of the source, once a build has stored it
    fresh_item, \* the item the first build made from a fresh parse
    hit_item, \* the item a later build made from the cache hit
    slugs, \* SiteBuilder.slugs, handed to ContentLoader as url_slugs
    unvisited, \* the directory entries load_content still has to visit
    loaded, \* the items load_content has appended to posts
    rendered, \* how many of them _render_post has been called for
    written \* the item pages in the output directory: url -> source of the item

cacheVars == <<cache, disk, got, setLog>>
buildVars == <<files, site, pc, todo, posts, used, start, crash, builds, edits,
              drafts>>
siteVars == <<shortname_map, pending, pages>>
resolveVars == <<page_url, page_nodes, page_out>>
indexVars == <<idx_total, idx_per_page, idx_page, idx_pagination,
              idx_written>>
relatedVars == <<rel_posts, rel_out>>
starVars == <<review_rating, review_stars>>
mailVars == <<mail_doc, mail_runs>>
reloadVars == <<meta, now, cached_data, fresh_item, hit_item>>
urlVars == <<slugs, unvisited, loaded, rendered, written>>
pureVars == <<page_url, page_nodes, page_out, idx_total, idx_per_page, idx_page,
             idx_pagination, idx_written, rel_posts, rel_out, review_rating, review_stars,
    mail_doc, mail_runs,
    meta, now, cached_data, fresh_item, hit_item,
    slugs, unvisited, loaded, rendered, written>>
expandVars == <<doc, typed, res>>
argVars == <<argtext, parsed>>
vars == <<cache, disk, got, setLog, files, site, pc, todo, posts, used, start,
          crash, builds, edits, drafts, doc, typed, res, argtext, parsed,
          shortname_map, pending, pages, page_url, page_nodes, page_out,
          idx_total, idx_per_page, idx_page, idx_pagination, idx_written,
          rel_posts,
          rel_out, review_rating, review_stars,
    mail_doc, mail_runs,
    meta, now, cached_data, fresh_item, hit_item,
    slugs, unvisited, loaded, rendered, written>>

(***************************************************************************)
(* Bounds.                                                                 *)
(***************************************************************************)
MaxMtime == 2
MaxSets == 3
MaxBuilds == 2
MaxEdits == 1
MaxPieces == 4
MaxArgLen == 6

Keys == {"content/posts/a.md", "content/posts/b/post.md"}
Mtimes == 1..MaxMtime

(***************************************************************************)
(* Python values.                                                          *)
(***************************************************************************)
None == [kind |-> "None"]
Raised(e) == [kind |-> "raise", err |-> e]
Payload(h, fm) == [kind |-> "payload", html |-> h, frontmatter |-> fm]
Entry(t, d) == [kind |-> "entry", mtime |-> t, data |-> d]
Dict(m) == [kind |-> "dict", m |-> m]
EmptyMap == [k \in {} |-> None]

\* payloads used when the cache is driven through its interface alone
ApiPayloads == {Payload("<p>one</p>", "title: one"), Payload("<p>two</p>", "title: two")}

(***************************************************************************)
(* The snapshot file.                                                      *)
(***************************************************************************)
FileMissing == [kind |-> "missing"]
FileUnreadable == [kind |-> "unreadable"]
FileGarbage == [kind |-> "garbage"]
FileJson(v) == [kind |-> "json", val |-> v]
\* a file cut short after n complete entries: not a JSON document
FilePartial(n) == [kind |-> "partial", n |-> n]

(***************************************************************************)
(* CacheManager                                                            *)
(***************************************************************************)
\* cache.py:13-23
load_cache(file) ==
    IF file.kind = "missing" THEN Dict(EmptyMap)
    ELSE IF file.kind = "json" THEN file.val
    ELSE Dict(EmptyMap)

get_newer_than(c, key, mtime) ==
    IF c.kind = "scalar" THEN Raised("TypeError")
    ELSE IF c.kind = "list"
        THEN IF key \in c.elems THEN Raised("TypeError") ELSE None
    ELSE IF key \notin DOMAIN c.m THEN None
    ELSE LET entry == c.m[key] IN
        IF entry.kind # "entry" THEN Raised("AttributeError")
        ELSE IF entry.mtime >= mtime
            THEN IF entry.data.kind = "absent" THEN Raised("KeyError") ELSE entry.data
            ELSE None

\* cache.py:25-42
CacheManager_get(c, key, mtime) ==
    IF c.kind = "scalar" THEN Raised("TypeError")            \* key in 42
    ELSE IF c.kind = "list"
        THEN IF key \in c.elems THEN Raised("TypeError")     \* list[str]
             ELSE None
    ELSE IF key \notin DOMAIN c.m THEN None
    ELSE LET entry == c.m[key] IN
        IF entry.kind # "entry" THEN Raised("AttributeError") \* entry.get
        ELSE IF entry.mtime = mtime
            THEN IF entry.data.kind = "absent" THEN Raised("KeyError") ELSE entry.data
            ELSE None

set_forgets_others(c, key, mtime, data) ==
    IF c.kind # "dict" THEN Raised("TypeError")
    ELSE Dict([k \in {key} |-> Entry(mtime, data)])

\* cache.py:44-50; the new value of self.cache, or the exception
CacheManager_set(c, key, mtime, data) ==
    IF c.kind # "dict" THEN Raised("TypeError")
    ELSE Dict([k \in DOMAIN c.m \cup {key} |->
                 IF k = key THEN Entry(mtime, data) ELSE c.m[k]])

(***************************************************************************)
(* The cache driven through its interface: any get and set calls on one    *)
(* CacheManager constructed from a snapshot that save() wrote, or none.    *)
(***************************************************************************)
NoCall == [kind |-> "nocall"]

SavedSnapshots ==
    {FileMissing,
     FileJson(Dict([k \in {"content/posts/a.md"} |->
                      Entry(1, Payload("<p>one</p>", "title: one"))]))}

NoCrash == [kind |-> "none"]
NotRun == [kind |-> "notrun"]

\* the parts of the state a specification does not exercise
ExpandIdle == doc = <<>> /\ typed = 0 /\ res = NotRun
ArgsIdle == argtext = <<>> /\ parsed = NotRun
\* build() has not reached site_builder.py:167: the attribute does not exist
NoIndex == [kind |-> "unset"]
SiteIdle == shortname_map = NoIndex /\ pending = <<>> /\ pages = <<>>
ResolveIdle == page_url = <<>> /\ page_nodes = <<>> /\ page_out = NotRun
IndexIdle ==
    /\ idx_total = 0 /\ idx_per_page = 1 /\ idx_page = 0
    /\ idx_pagination = NotRun /\ idx_written = <<>>
RelatedIdle == rel_posts = <<>> /\ rel_out = NoCall
StarsIdle == review_rating = 0 /\ review_stars = NotRun
MailIdle == mail_doc = <<>> /\ mail_runs = <<>>
ReloadIdle == meta = <<>> /\ now = 0 /\ cached_data = <<>> /\ fresh_item = <<>> /\ hit_item = <<>>
UrlsIdle == slugs = <<>> /\ unvisited = <<>> /\ loaded = <<>> /\ rendered = 0 /\ written = <<>>
PureIdle == ResolveIdle /\ IndexIdle /\ RelatedIdle /\ StarsIdle
    /\ MailIdle
    /\ ReloadIdle
    /\ UrlsIdle

InitCache ==
    /\ disk \in SavedSnapshots
    /\ cache = load_cache(disk)
    /\ got = NoCall
    /\ setLog = <<>>
    /\ files = [k \in Keys |-> [content |-> "static", mtime |-> 1]]
    /\ site = 1
    /\ pc = "idle"
    /\ todo = <<>>
    /\ posts = <<>>
    /\ used = EmptyMap
    /\ start = disk
    /\ crash = NoCrash
    /\ builds = 0
    /\ edits = 0
    /\ drafts = FALSE
    /\ SiteIdle
    /\ PureIdle
    /\ ExpandIdle
    /\ ArgsIdle

Get(k, t) ==
    /\ got' = [kind |-> "call", key |-> k, mtime |-> t,
               result |-> CacheManager_get(cache, k, t)]
    /\ UNCHANGED <<cache, disk, setLog>>
    /\ UNCHANGED <<buildVars, expandVars, argVars, siteVars, pureVars>>

Set(k, t, d) ==
    /\ Len(setLog) < MaxSets
    /\ cache' = CacheManager_set(cache, k, t, d)
    /\ setLog' = Append(setLog, [key |-> k, mtime |-> t, data |-> d])
    /\ got' = NoCall
    /\ UNCHANGED disk
    /\ UNCHANGED <<buildVars, expandVars, argVars, siteVars, pureVars>>

NextCache ==
    \/ \E k \in Keys, t \in Mtimes : Get(k, t)
    \/ \E k \in Keys, t \in Mtimes, d \in ApiPayloads : Set(k, t, d)

SpecCache == InitCache /\ [][NextCache]_vars

(***************************************************************************)
(* C1                                                                      *)
(***************************************************************************)
HasFreshEntry(c, k, t) ==
    /\ k \in DOMAIN c.m
    /\ c.m[k].mtime = t

\* C1: get(key, mtime) returns the stored payload if and only if an entry
\* for key exists and its stored mtime equals mtime exactly; for every other
\* mtime, larger or smaller, and for every key without an entry, it returns
\* None.
C1_GetIffExactMtime ==
    got.kind = "call" =>
        /\ HasFreshEntry(cache, got.key, got.mtime)
              => got.result = cache.m[got.key].data
        /\ ~HasFreshEntry(cache, got.key, got.mtime) => got.result = None

\* a get with an mtime smaller than the stored one has been answered
C1_Witness ==
    /\ got.kind = "call"
    /\ got.key \in DOMAIN cache.m
    /\ got.mtime < cache.m[got.key].mtime
    /\ got.result = None

(***************************************************************************)
(* C3                                                                      *)
(***************************************************************************)
LastSetOf(k) ==
    LET idx == {i \in 1..Len(setLog) : setLog[i].key = k}
    IN  setLog[CHOOSE i \in idx : \A j \in idx : j <= i]

\* C3: after set(k, t, d) and any later set calls on other keys, get(k, t)
\* returns d and get(k, t') is None for every t' other than t (t + 1
\* included); a later set(k, t2, d2) replaces the entry, so a get returns
\* only the most recent write for its key.
C3_SetThenGet ==
    \A k \in Keys :
        (\E i \in 1..Len(setLog) : setLog[i].key = k) =>
            LET w == LastSetOf(k) IN
            /\ CacheManager_get(cache, k, w.mtime) = w.data
            /\ \A t \in 0..(MaxMtime + 1) :
                  t # w.mtime => CacheManager_get(cache, k, t) = None

\* a key was written twice with different mtimes and payloads, then another
\* key was written
C3_Witness ==
    /\ Len(setLog) = 3
    /\ setLog[1].key = setLog[2].key
    /\ setLog[1].mtime # setLog[2].mtime
    /\ setLog[1].data # setLog[2].data
    /\ setLog[3].key # setLog[1].key

(***************************************************************************)
(* The frontmatter+body reader, the renderers and the load cycle           *)
(* (content_loader.py).                                                    *)
(***************************************************************************)
\* the source texts: a body without template expressions, a body that uses
\* {{ site.title }}, a source whose frontmatter sets draft: true, a source
\* whose frontmatter is not valid YAML, a file that cannot be opened, a
\* source with an empty "tags:" line, a source whose date carries a UTC
\* offset, a later post that takes the shortname of the static one, and a
\* source whose frontmatter holds a date inside a list ("history:
\* [2024-01-01]")
Contents == {"static", "jinja", "draft", "malformed", "unreadable", "nulltags",
             "aware", "newer", "nested"}
Sites == {1, 2}

KeyA == "content/posts/a.md"
KeyB == "content/posts/b/post.md"
\* the order in which load_content visits the sources
KeyOrder == <<KeyA, KeyB>>

Str(v) == [kind |-> "str", v |-> v]

\* content_loader.py:95-97, fm.load: the metadata of a source, or the
\* exception fm.load raises
Frontmatter(content) ==
    IF content = "malformed" THEN Raised("YAMLError")
    ELSE IF content = "unreadable" THEN Raised("PermissionError")
    ELSE [kind |-> "metadata",
          title |-> content,
          draft |-> (content = "draft"),
          date |-> [kind |-> IF content = "aware" THEN "datetime" ELSE "date",
                    v |-> IF content \in {"jinja", "aware", "newer"} THEN 2 ELSE 1,
                    tz |-> (content = "aware")],
          shortname |-> IF content \in {"static", "newer"} THEN Str("s1")
                        ELSE IF content = "jinja" THEN Str("s2") ELSE None,
          tags |-> IF content = "nulltags" THEN None ELSE [kind |-> "list"],
          history |-> IF content = "nested"
                      THEN [kind |-> "list", of |-> "date"] ELSE None]

\* content_loader.py:99-114: shortcodes, then the Jinja rendering of the body
\* with site_context, then Markdown.  The body of the "jinja" source holds
\* {{< link "s1" >}}: the handler leaves a placeholder (link.py:7-10), and
\* Markdown passes the element through.
RenderHtml(content, s) ==
    [body |-> content, site |-> IF content = "jinja" THEN s ELSE 0,
     placeholders |-> IF content = "jinja" THEN <<"s1">> ELSE <<>>]

\* content_loader.py:116-122: the dates among the values of the frontmatter
\* become ISO strings for the cache; a date inside a list stays a date
frontmatter_serializable(fm) ==
    IF fm.kind # "metadata" THEN fm
    ELSE [fm EXCEPT !.date = [kind |-> "str", v |-> fm.date.v, tz |-> fm.date.tz]]

\* what a fresh parse hands to CacheManager.set (content_loader.py:124-127)
FreshPayload(content, s) ==
    Payload(RenderHtml(content, s), frontmatter_serializable(Frontmatter(content)))

\* the mutant of IsDraft: the draft flag is not looked at
draft_flag_ignored(fm, include_drafts) == FALSE

\* content_loader.py:131-133
IsDraft(fm, include_drafts) == fm.draft /\ ~include_drafts

\* content_loader.py:135-149: the datetime of an item, from a date, a
\* datetime or the ISO string the cache holds
date_obj(fm) == [v |-> fm.date.v, tz |-> fm.date.tz]

\* content_loader.py:151-156
UrlOf(key) == IF key = KeyA THEN <<"/", "posts", "/", "a", "/">>
              ELSE <<"/", "posts", "/", "b", "/">>

\* content_loader.py:176-189 and models.py:85-106: the item
Item(key, html, fm) ==
    [path |-> key, content |-> html, frontmatter |-> fm, date |-> date_obj(fm),
     url |-> UrlOf(key), shortname |-> fm.shortname, title |-> fm.title]

PostResult(c, outcome, hit, html, fm) ==
    [cache |-> c, outcome |-> outcome, hit |-> hit, html |-> html,
     frontmatter |-> fm]

\* content_loader.py:131-189: from the HTML and the frontmatter to the item;
\* line 166 raises on tags that are None
build_item(c, hit, html, fm, include_drafts) ==
    IF IsDraft(fm, include_drafts) THEN PostResult(c, "draft", hit, html, fm)
    ELSE IF fm.tags = None THEN PostResult(c, "error", hit, None, None)
    ELSE PostResult(c, "item", hit, html, fm)

\* the mutant of parse_post: the first failure empties the cache
parse_post_failure_spreads(c, key, file, s, include_drafts) ==
    LET cached == CacheManager_get(c, key, file.mtime)
        fm == Frontmatter(file.content)
        stored == CacheManager_set(c, key, file.mtime, FreshPayload(file.content, s))
    IN  IF cached.kind = "payload"
            THEN build_item(c, TRUE, cached.html, cached.frontmatter, include_drafts)
        ELSE IF cached.kind # "None" \/ fm.kind = "raise" \/ stored.kind = "raise"
            THEN PostResult(Dict(EmptyMap), "error", FALSE, None, None)
        ELSE build_item(stored, FALSE, RenderHtml(file.content, s), fm, include_drafts)

\* content_loader.py:82-193, _parse_post: the new self.cache, whether an item
\* is returned, and the HTML and frontmatter it was built from.  Any
\* exception ends in the handler of line 191 and returns None ("error").
parse_post(c, key, file, s, include_drafts) ==
    LET cached == CacheManager_get(c, key, file.mtime)
        fm == Frontmatter(file.content)
        html == RenderHtml(file.content, s)
        stored == CacheManager_set(c, key, file.mtime, FreshPayload(file.content, s))
    IN  IF cached.kind = "raise"
            THEN PostResult(c, "error", FALSE, None, None)
        ELSE IF cached.kind = "payload"
            THEN build_item(c, TRUE, cached.html, cached.frontmatter, include_drafts)
        ELSE IF cached.kind = "truthy"
            \* cached_data['html'] on a value that has no such key
            THEN PostResult(c, "error", FALSE, None, None)
        ELSE IF fm.kind = "raise"
            THEN PostResult(c, "error", FALSE, None, None)
        ELSE IF stored.kind = "raise"
            THEN PostResult(c, "error", FALSE, None, None)
        ELSE build_item(stored, FALSE, html, fm, include_drafts)

\* what the snapshot file may hold when a build finds it
Scalar == [kind |-> "scalar"]
ListOf(elems) == [kind |-> "list", elems |-> elems]
NotADict == [kind |-> "str"]
InitSnapshots ==
    {FileMissing, FileUnreadable, FileGarbage,
     FileJson(Scalar),                                   \* null
     FileJson(ListOf({KeyA})),                            \* ["content/posts/a.md"]
     FileJson(Dict([k \in {KeyA} |-> NotADict])),         \* {"...a.md": "x"}
     FileJson(Dict([k \in {KeyA} |-> Entry(1, [kind |-> "truthy"])])),
     FileJson(Dict([k \in {KeyA} |-> Entry(1, [kind |-> "absent"])]))}

InitBuild ==
    /\ disk \in InitSnapshots
    /\ cache = Dict(EmptyMap)
    /\ got = NoCall
    /\ setLog = <<>>
    /\ files \in {[k \in Keys |-> [content |-> IF k = KeyA THEN "static" ELSE c,
                                    mtime |-> 1]] : c \in {"jinja", "draft"}}
    /\ site = 1
    /\ pc = "idle"
    /\ todo = <<>>
    /\ posts = <<>>
    /\ used = EmptyMap
    /\ start = disk
    /\ crash = NoCrash
    /\ builds = 0
    /\ edits = 0
    /\ drafts = FALSE
    /\ SiteIdle
    /\ PureIdle
    /\ ExpandIdle
    /\ ArgsIdle

\* a source is rewritten or replaced; the file system stamps another
\* st_mtime on it, later or earlier than the old one
EditSource(k, c, t) ==
    /\ pc = "idle"
    /\ edits < MaxEdits
    /\ t # files[k].mtime
    /\ files' = [files EXCEPT ![k] = [content |-> c, mtime |-> t]]
    /\ edits' = edits + 1
    /\ UNCHANGED <<cache, disk, got, setLog, site, pc, todo, posts, used,
                   start, crash, builds, drafts,
                   expandVars, argVars, siteVars, pureVars>>

\* config.yaml is edited (manage.py:62 rebuilds on it)
ChangeConfig(s) ==
    /\ pc = "idle"
    /\ edits < MaxEdits
    /\ s # site
    /\ site' = s
    /\ edits' = edits + 1
    /\ UNCHANGED <<cache, disk, got, setLog, files, pc, todo, posts, used,
                   start, crash, builds, drafts,
                   expandVars, argVars, siteVars, pureVars>>

\* SiteBuilder.__init__ -> ContentLoader.__init__ -> CacheManager.__init__
\* (site_builder.py:52-58, content_loader.py:28-35, cache.py:7-11), then
\* build() empties the output directory (site_builder.py:125-126)
StartBuild(include_drafts) ==
    /\ pc = "idle"
    /\ builds < MaxBuilds
    /\ builds' = builds + 1
    /\ cache' = load_cache(disk)
    /\ start' = disk
    /\ drafts' = include_drafts
    /\ todo' = KeyOrder
    /\ posts' = <<>>
    /\ used' = EmptyMap
    /\ crash' = NoCrash
    /\ pc' = "loading"
    /\ shortname_map' = NoIndex
    /\ pending' = <<>>
    /\ pages' = <<>>
    /\ UNCHANGED <<disk, got, setLog, files, site, edits,
                   expandVars, argVars, pureVars>>

\* one turn of the loop of load_content (content_loader.py:56-71)
ParsePost ==
    /\ pc = "loading"
    /\ todo # <<>>
    /\ LET key == Head(todo)
           r == parse_post(cache, key, files[key], site, drafts)
       IN  /\ cache' = r.cache
           /\ used' = [k \in DOMAIN used \cup {key} |->
                         IF k = key THEN [outcome |-> r.outcome, hit |-> r.hit,
                                          html |-> r.html,
                                          frontmatter |-> r.frontmatter]
                         ELSE used[k]]
           /\ posts' = IF r.outcome = "item"
                       THEN Append(posts, Item(key, r.html, r.frontmatter))
                       ELSE posts
    /\ todo' = Tail(todo)
    /\ UNCHANGED <<disk, got, setLog, files, site, pc, start, crash, builds,
                   edits, drafts,
                   expandVars, argVars, siteVars, pureVars>>

\* datetime.__lt__ raises TypeError between a naive and an aware datetime
Comparable(items) ==
    \A i, j \in 1..Len(items) : items[i].date.tz = items[j].date.tz

\* list.sort(key=lambda x: x.date, reverse=True): stable, newest first
RECURSIVE InsertByDate(_, _)
InsertByDate(sorted, x) ==
    IF sorted = <<>> THEN <<x>>
    ELSE IF Head(sorted).date.v >= x.date.v
        THEN <<Head(sorted)>> \o InsertByDate(Tail(sorted), x)
        ELSE <<x>> \o sorted

RECURSIVE sort_by_date(_)
sort_by_date(items) ==
    IF items = <<>> THEN <<>>
    ELSE InsertByDate(sort_by_date(SubSeq(items, 1, Len(items) - 1)),
                      items[Len(items)])

\* content_loader.py:73-77: the loop is over, the list is sorted and save()
\* is called; an exception of the sort leaves load_content and build()
\* (manage.py:33-35 ends the process)
EnterSave ==
    /\ pc = "loading"
    /\ todo = <<>>
    /\ IF Comparable(posts)
       THEN /\ posts' = sort_by_date(posts)
            /\ pc' = "save"
            /\ UNCHANGED <<cache, crash>>
       ELSE /\ crash' = [kind |-> "exception", at |-> "sort",
                         new |-> FileJson(cache)]
            /\ cache' = Dict(EmptyMap)
            /\ pc' = "idle"
            /\ UNCHANGED posts
    /\ UNCHANGED <<disk, got, setLog, files, site, todo, used,
                   start, builds, edits, drafts,
                   expandVars, argVars, siteVars, pureVars>>

\* cache.py:58, open(cache_file, 'w') truncates the file
SaveOpen ==
    /\ pc = "save"
    /\ disk' = FilePartial(0)
    /\ pc' = "writing"
    /\ UNCHANGED <<cache, got, setLog, files, site, todo, posts, used, start,
                   crash, builds, edits, drafts,
                   expandVars, argVars, siteVars, pureVars>>

EntriesOf(c) == IF c.kind = "dict" THEN Cardinality(DOMAIN c.m) ELSE 0

\* the keys of the dict in the order json.dump meets them: the order of
\* insertion, which is the order in which the sources are visited
EntryKeys(c) ==
    IF c.kind = "dict"
    THEN SelectSeq(KeyOrder, LAMBDA k : k \in DOMAIN c.m) ELSE <<>>

\* json.dump raises TypeError on a value that is no JSON type
JsonSerializable(entry) ==
    ~(/\ entry.kind = "entry"
      /\ entry.data.kind = "payload"
      /\ entry.data.frontmatter.kind = "metadata"
      /\ entry.data.frontmatter.history # None)

\* cache.py:59, json.dump writes the document piece by piece
SaveWrite ==
    /\ pc = "writing"
    /\ disk.kind = "partial"
    /\ disk.n < EntriesOf(cache)
    /\ JsonSerializable(cache.m[EntryKeys(cache)[disk.n + 1]])
    /\ disk' = FilePartial(disk.n + 1)
    /\ UNCHANGED <<cache, got, setLog, files, site, pc, todo, posts, used,
                   start, crash, builds, edits, drafts,
                   expandVars, argVars, siteVars, pureVars>>

\* cache.py:59-61, json.dump raises in the middle of the document: the file
\* is closed as it is, save() prints a warning and load_content returns
SaveFail ==
    /\ pc = "writing"
    /\ disk.kind = "partial"
    /\ disk.n < EntriesOf(cache)
    /\ ~JsonSerializable(cache.m[EntryKeys(cache)[disk.n + 1]])
    /\ pc' = "loaded"
    /\ UNCHANGED <<cache, disk, got, setLog, files, site, todo, posts, used,
                   start, crash, builds, edits, drafts,
                   expandVars, argVars, siteVars, pureVars>>

\* cache.py:58-59, the document is complete and the file is closed;
\* load_content returns (content_loader.py:79) to build()
\* (site_builder.py:130)
SaveClose ==
    /\ pc = "writing"
    /\ disk.kind = "partial"
    /\ disk.n = EntriesOf(cache)
    /\ disk' = FileJson(cache)
    /\ pc' = "loaded"
    /\ UNCHANGED <<cache, got, setLog, files, site, todo, posts, used, start,
                   crash, builds, edits, drafts,
                   expandVars, argVars, siteVars, pureVars>>

Max(S) == CHOOSE x \in S : \A y \in S : x >= y

\* the mutant of shortname_index: only the newest item is indexed
index_of_first(items) ==
    [kind |-> "index",
     m |-> [n \in {items[i].shortname.v :
                     i \in {j \in 1..Len(items) :
                              j = 1 /\ items[j].shortname # None}} |-> items[1]]]

\* site_builder.py:167, {p.shortname: p for p in posts if p.shortname}:
\* of the items with one shortname, the last of the list stays
shortname_index(items) ==
    LET named == {i \in 1..Len(items) : items[i].shortname # None}
    IN  [kind |-> "index",
         m |-> [n \in {items[i].shortname.v : i \in named} |->
                  items[Max({i \in named : items[i].shortname.v = n})]]]

\* site_builder.py:159-167: build() sorts the items once more, keeps them in
\* all_posts and builds the shortname index
IndexPosts ==
    /\ pc = "loaded"
    /\ posts' = sort_by_date(posts)
    /\ shortname_map' = shortname_index(posts')
    /\ pending' = posts'
    /\ pc' = "rendering"
    /\ UNCHANGED <<cache, disk, got, setLog, files, site, todo, used, start,
                   crash, builds, edits, drafts, pages,
                   expandVars, argVars, pureVars>>

\* the placeholders of all items of a list, in order
RECURSIVE PlaceholdersOf(_)
PlaceholdersOf(items) ==
    IF items = <<>> THEN <<>>
    ELSE Head(items).content.placeholders \o PlaceholdersOf(Tail(items))

\* what a page is written from: its URL, the index its references were
\* resolved against and what _resolve_internal_links made of each
\* placeholder of the HTML it embeds (site_builder.py:673, 713-743)
Page(url, index, placeholders) ==
    [url |-> url, index |-> index,
     links |-> [i \in 1..Len(placeholders) |->
                  IF placeholders[i] \in DOMAIN index.m THEN "a" ELSE "span"]]

\* site_builder.py:170-171 and 322-348: one turn of the loop over the posts
RenderPost ==
    /\ pc = "rendering"
    /\ pending # <<>>
    /\ pages' = Append(pages, Page(Head(pending).url, shortname_map,
                                  Head(pending).content.placeholders))
    /\ pending' = Tail(pending)
    /\ UNCHANGED <<cache, disk, got, setLog, files, site, pc, todo, posts,
                   used, start, crash, builds, edits, drafts, shortname_map,
                   expandVars, argVars, pureVars>>

\* site_builder.py:173-211: the index pages and the other pages of the site
RenderIndex ==
    /\ pc = "rendering"
    /\ pending = <<>>
    /\ pages' = Append(pages, Page(<<"/">>, shortname_map,
                                  PlaceholdersOf(posts)))
    /\ pc' = "done"
    /\ UNCHANGED <<cache, disk, got, setLog, files, site, todo, posts,
                   used, start, crash, builds, edits, drafts, shortname_map,
                   pending,
                   expandVars, argVars, pureVars>>

\* the build process is killed (power loss, SIGKILL, Ctrl-C)
Crash ==
    /\ pc \in {"loading", "save", "writing", "loaded", "rendering"}
    /\ crash' = [kind |-> "crash", at |-> pc, new |-> FileJson(cache)]
    /\ cache' = Dict(EmptyMap)
    /\ pc' = "idle"
    /\ UNCHANGED <<disk, got, setLog, files, site, todo, posts, used, start,
                   builds, edits, drafts,
                   expandVars, argVars, siteVars, pureVars>>

\* the build process ends
Exit ==
    /\ pc = "done"
    /\ cache' = Dict(EmptyMap)
    /\ pc' = "idle"
    /\ UNCHANGED <<disk, got, setLog, files, site, todo, posts, used, start,
                   crash, builds, edits, drafts,
                   expandVars, argVars, siteVars, pureVars>>

NextBuild ==
    \/ \E k \in Keys, c \in Contents, t \in Mtimes : EditSource(k, c, t)
    \/ \E s \in Sites : ChangeConfig(s)
    \/ \E d \in BOOLEAN : StartBuild(d)
    \/ ParsePost
    \/ EnterSave
    \/ SaveOpen
    \/ SaveWrite
    \/ SaveFail
    \/ SaveClose
    \/ IndexPosts
    \/ RenderPost
    \/ RenderIndex
    \/ Crash
    \/ Exit

SpecBuild == InitBuild /\ [][NextBuild]_vars

(***************************************************************************)
(* C2                                                                      *)
(***************************************************************************)
Building == pc \in {"loading", "save", "writing", "loaded", "rendering", "done"}

\* C2: the cache never serves stale output: in every build of any sequence
\* of builds and source edits, the HTML and frontmatter every content item
\* is built from equal what parsing the file's current contents in that
\* build produces (the frontmatter in the form the cache stores).
C2_NeverStale ==
    Building =>
        \A k \in DOMAIN used :
            used[k].outcome # "error" =>
                /\ used[k].html = RenderHtml(files[k].content, site)
                /\ frontmatter_serializable(used[k].frontmatter)
                     = frontmatter_serializable(Frontmatter(files[k].content))

(***************************************************************************)
(* C4                                                                      *)
(***************************************************************************)
\* C4: a crash at any point during save() leaves the snapshot file holding
\* either the complete previous snapshot or the complete new one, never an
\* empty or partially written file.
C4_CrashAtomicSave ==
    (crash.kind = "crash" /\ crash.at \in {"save", "writing"}) =>
        disk \in {start, crash.new}

(***************************************************************************)
(* C5                                                                      *)
(***************************************************************************)
WellFormedSnapshot(file) ==
    /\ file.kind = "json"
    /\ file.val.kind = "dict"
    /\ \A k \in DOMAIN file.val.m :
          /\ file.val.m[k].kind = "entry"
          /\ file.val.m[k].data.kind = "payload"

\* the snapshot the running build found is missing, unreadable, not
\* parseable, or parseable but not a mapping of well-formed entries
BadSnapshotAtStart == ~WellFormedSnapshot(start)

\* C5: whatever the snapshot file holds at construction, the cache behaves
\* as an empty cache: every get is a miss and the load cycle reparses every
\* source and includes every non-draft item in the collection.
C5_BadSnapshotIsEmptyCache ==
    (pc = "loaded" /\ BadSnapshotAtStart) =>
        \A k \in Keys :
            /\ k \in DOMAIN used
            /\ ~used[k].hit
            /\ used[k].outcome
                 = parse_post(Dict(EmptyMap), k, files[k], site, drafts).outcome
            /\ ~IsDraft(Frontmatter(files[k].content), drafts)
                  => \E i \in 1..Len(posts) : posts[i].path = k

(***************************************************************************)
(* C11                                                                     *)
(***************************************************************************)
\* every item that has a shortname is in the index under it, and the index
\* holds nothing else
CompleteIndex(index, items) ==
    /\ index.kind = "index"
    /\ \A i \in 1..Len(items) :
          items[i].shortname # None =>
              /\ items[i].shortname.v \in DOMAIN index.m
              /\ index.m[items[i].shortname.v].shortname = items[i].shortname
    /\ \A n \in DOMAIN index.m :
          \E i \in 1..Len(items) : items[i] = index.m[n]

\* C11: in every build the shortname index does not exist and no page is
\* written while items are being loaded and the cache is saved; every page
\* that is written had its references resolved against the index of all
\* loaded items, after the last source was visited.
C11_IndexBeforePages ==
    /\ pc \in {"loading", "save", "writing", "loaded"} =>
          (shortname_map = NoIndex /\ pages = <<>>)
    /\ shortname_map # NoIndex =>
          (todo = <<>> /\ CompleteIndex(shortname_map, posts))
    /\ \A i \in 1..Len(pages) :
          /\ todo = <<>>
          /\ pages[i].index = shortname_map
          /\ CompleteIndex(pages[i].index, posts)

\* a finished build of two items with shortnames: three pages written
C11_Witness ==
    /\ pc = "done"
    /\ Len(posts) = 2
    /\ Len(pages) = 3
    /\ DOMAIN shortname_map.m = {"s1", "s2"}

(***************************************************************************)
(* C17                                                                     *)
(***************************************************************************)
InPosts(k) == \E i \in 1..Len(posts) : posts[i].path = k

\* C17: with include_drafts off no item of the collection has the draft
\* flag set in its frontmatter, and a source whose frontmatter (read from
\* the file or taken from the cache) sets it gives no item; with
\* include_drafts on such a source is in the collection.
C17_DraftsOnlyWhenAsked ==
    /\ ~drafts => \A i \in 1..Len(posts) : ~posts[i].frontmatter.draft
    /\ \A k \in DOMAIN used :
          /\ used[k].outcome = "draft" => (~drafts /\ ~InPosts(k))
          /\ (used[k].outcome # "error" /\ used[k].frontmatter.draft) =>
                (InPosts(k) <=> drafts)

\* a second build, drafts excluded, that takes a draft from the cache
C17_Witness ==
    /\ pc = "loaded"
    /\ ~drafts
    /\ KeyB \in DOMAIN used
    /\ used[KeyB].hit
    /\ used[KeyB].outcome = "draft"
    /\ InPosts(KeyA)
    /\ ~InPosts(KeyB)

(***************************************************************************)
(* C18                                                                     *)
(***************************************************************************)
EntryOf(c, k) ==
    IF c.kind = "dict" /\ k \in DOMAIN c.m THEN c.m[k] ELSE None

\* what _parse_post makes of source k on the cache the build started with
Alone(k) == parse_post(load_cache(start), k, files[k], site, drafts)

\* what save() leaves on disk for a cache: the whole document, or the
\* document up to the first value json.dump cannot write
SavedFile(c) ==
    LET keys == EntryKeys(c)
        bad == {i \in 1..Len(keys) : ~JsonSerializable(c.m[keys[i]])}
    IN  IF bad = {} THEN FileJson(c)
        ELSE FilePartial((CHOOSE i \in bad : \A j \in bad : i <= j) - 1)

\* C18: when _parse_post fails for a source, load_content returns with the
\* cache saved (save() has run on the cache), and every other source has
\* the outcome, the place in the collection and the cache entry it has when
\* it is parsed on its own.
C18_FailureLeavesOthersAlone ==
    pc = "loaded" =>
        \A k \in Keys :
            used[k].outcome = "error" =>
                /\ ~InPosts(k)
                /\ disk = SavedFile(cache)
                /\ \A j \in Keys \ {k} :
                      /\ used[j].outcome = Alone(j).outcome
                      /\ InPosts(j) <=> Alone(j).outcome = "item"
                      /\ EntryOf(cache, j) = EntryOf(Alone(j).cache, j)

\* the second source has malformed frontmatter or cannot be read, the first
\* one is parsed, returned and cached
C18_Witness ==
    /\ pc = "loaded"
    /\ files[KeyB].content \in {"malformed", "unreadable"}
    /\ used[KeyB].outcome = "error"
    /\ used[KeyA].outcome = "item"
    /\ ~used[KeyA].hit
    /\ InPosts(KeyA)
    /\ EntryOf(cache, KeyA) # None
    /\ disk = FileJson(cache)

(***************************************************************************)
(* C19                                                                     *)
(***************************************************************************)
\* C19: no exception leaves load_content or build: every build runs to its
\* end whatever the sources and the cache are.
C19_NoExceptionEscapes == crash.kind # "exception"

(***************************************************************************)
(* C24                                                                     *)
(***************************************************************************)
\* C24: when a load cycle has completed, the snapshot on disk holds, for
\* every source parsed without error in that cycle, an entry whose stored
\* mtime is the modification time read for that source.
C24_SnapshotHoldsEveryParsedSource ==
    pc = "loaded" =>
        \A k \in DOMAIN used :
            used[k].outcome \in {"item", "draft"} =>
                LET c == load_cache(disk)
                IN  /\ c.kind = "dict"
                    /\ k \in DOMAIN c.m
                    /\ c.m[k].kind = "entry"
                    /\ c.m[k].mtime = files[k].mtime

(***************************************************************************)
(* C23                                                                     *)
(***************************************************************************)
\* the HTML documents the snapshot file holds
SnapshotHtml ==
    IF disk.kind = "json" /\ disk.val.kind = "dict"
    THEN {disk.val.m[k].data.html :
            k \in {x \in DOMAIN disk.val.m :
                     /\ disk.val.m[x].kind = "entry"
                     /\ disk.val.m[x].data.kind = "payload"}}
    ELSE {}

\* C23: placeholders are never persisted: no HTML of the cache snapshot
\* holds an unresolved placeholder, and in every page that is written each
\* placeholder of the embedded HTML was replaced, by a link or by the
\* broken-link marker.
C23_PlaceholdersNeverPersisted ==
    /\ \A h \in SnapshotHtml : h.placeholders = <<>>
    /\ \A p \in 1..Len(pages) :
          \A i \in 1..Len(pages[p].links) : pages[p].links[i] \in {"a", "span"}

(***************************************************************************)
(* C22                                                                     *)
(***************************************************************************)
\* the place of an item's source in the order of enumeration
LoadRank(item) == CHOOSE i \in 1..Len(KeyOrder) : KeyOrder[i] = item.path

\* C22: when several loaded items carry one shortname, the index maps the
\* shortname to the one that was loaded last, and every page resolves its
\* placeholders against that entry.
C22_LastLoadedWins ==
    shortname_map # NoIndex =>
        /\ \A n \in DOMAIN shortname_map.m :
              \A i \in 1..Len(posts) :
                  posts[i].shortname = Str(n) =>
                      LoadRank(posts[i]) <= LoadRank(shortname_map.m[n])
        /\ \A p \in 1..Len(pages) : pages[p].index = shortname_map

(***************************************************************************)
(* C30                                                                     *)
(***************************************************************************)
\* the keys a cache object or a loaded snapshot holds
CacheKeys(c) == IF c.kind = "dict" THEN DOMAIN c.m ELSE {}

\* C30: no step of a load cycle removes a cache entry: while a build runs
\* the cache holds every key of the snapshot it was loaded from, the entry
\* of a draft is stored although the draft is left out of the collection,
\* and after the save the snapshot holds every key of the cache.
C30_KeysOnlyGrow ==
    /\ pc \in {"loading", "writing", "loaded"} =>
          /\ CacheKeys(load_cache(start)) \subseteq CacheKeys(cache)
          /\ \A k \in DOMAIN used :
                used[k].outcome = "draft" => k \in CacheKeys(cache)
    /\ pc = "loaded" =>
          CacheKeys(cache) \subseteq CacheKeys(load_cache(disk))

(***************************************************************************)
(* ShortcodeManager (shortcode_manager.py).  Text is a sequence of         *)
(* lexemes; a word lexeme is a run of \w characters, a blank is one        *)
(* whitespace character, every other lexeme holds no \w character, no      *)
(* blank and no part of a tag marker.                                      *)
(***************************************************************************)
Open == "{{<"
Close == ">}}"
Slash == "/"
Eq == "="
DQuote == "\""
Blanks == {" ", "\n"}
Words == {"spoiler", "rating", "link", "email", "nope", "title", "content",
          "text", "T", "s1", "9", "4", "5", "0", "10", "a", "b", "Spoiler"}

IsSpace(x) == x \in Blanks
IsWord(x) == x \in Words

Min(S) == CHOOSE x \in S : \A y \in S : x <= y

\* the first position from i on that holds no blank (Len(t) + 1 if none)
SkipSpaces(t, i) ==
    Min({j \in i..(Len(t) + 1) : j = Len(t) + 1 \/ ~IsSpace(t[j])})

\* the first position from i on that holds no word lexeme
SkipWords(t, i) ==
    Min({j \in i..(Len(t) + 1) : j = Len(t) + 1 \/ ~IsWord(t[j])})

Sub(t, a, b) == IF a > b THEN <<>> ELSE SubSeq(t, a, b)

\* {{<\s*/\1\s*>}} at position q, for the captured name; the position of its
\* last lexeme, or 0
CloserEnd(t, q, name) ==
    IF q > Len(t) \/ t[q] # Open THEN 0
    ELSE LET s == SkipSpaces(t, q + 1)
             n == Len(name)
         IN  IF s > Len(t) \/ t[s] # Slash THEN 0
             ELSE IF s + n > Len(t) \/ Sub(t, s + 1, s + n) # name THEN 0
             ELSE LET e == SkipSpaces(t, s + n + 1)
                  IN  IF e <= Len(t) /\ t[e] = Close THEN e ELSE 0

NoMatch == [ok |-> FALSE]

\* the mutant of MatchAt for C26: group 3 runs to the last closer
MatchAt_last_closer(t, i) ==
    IF i > Len(t) \/ t[i] # Open THEN NoMatch
    ELSE LET j == SkipSpaces(t, i + 1)
             k == SkipWords(t, j)
         IN  IF k = j THEN NoMatch
             ELSE LET a == SkipSpaces(t, k)
                      cs == {c \in a..Len(t) : t[c] = Close}
                  IN  IF cs = {} THEN NoMatch
                      ELSE LET c == Min(cs)
                               p == Min({x \in a..c :
                                           \A y \in x..(c - 1) : IsSpace(t[y])})
                               qs == {q \in (c + 1)..Len(t) :
                                        CloserEnd(t, q, Sub(t, j, k - 1)) # 0}
                           IN  IF qs = {}
                               THEN [ok |-> TRUE, name |-> Sub(t, j, k - 1),
                                     args |-> Sub(t, a, p - 1),
                                     block |-> FALSE, inner |-> <<>>,
                                     last |-> c]
                               ELSE [ok |-> TRUE, name |-> Sub(t, j, k - 1),
                                     args |-> Sub(t, a, p - 1),
                                     block |-> TRUE,
                                     inner |-> Sub(t, c + 1, (CHOOSE q \in qs : \A y \in qs : y <= q) - 1),
                                     last |-> CloserEnd(t, (CHOOSE q \in qs : \A y \in qs : y <= q),
                                                        Sub(t, j, k - 1))]

\* shortcode_manager.py:19, the pattern
\*   {{<\s*(\w+)\s*(.*?)\s*>}}(?:(.*?){{<\s*/\1\s*>}})?    (DOTALL)
\* tried at position i: group 1 is the longest word run, group 2 the
\* shortest text up to the blanks before the first ">}}", group 3 the text up
\* to the first closer of that name, if there is one.
MatchAt(t, i) ==
    IF i > Len(t) \/ t[i] # Open THEN NoMatch
    ELSE LET j == SkipSpaces(t, i + 1)
             k == SkipWords(t, j)
         IN  IF k = j THEN NoMatch
             ELSE LET a == SkipSpaces(t, k)
                      cs == {c \in a..Len(t) : t[c] = Close}
                  IN  IF cs = {} THEN NoMatch
                      ELSE LET c == Min(cs)
                               p == Min({x \in a..c :
                                           \A y \in x..(c - 1) : IsSpace(t[y])})
                               qs == {q \in (c + 1)..Len(t) :
                                        CloserEnd(t, q, Sub(t, j, k - 1)) # 0}
                           IN  IF qs = {}
                               THEN [ok |-> TRUE, name |-> Sub(t, j, k - 1),
                                     args |-> Sub(t, a, p - 1),
                                     block |-> FALSE, inner |-> <<>>,
                                     last |-> c]
                               ELSE [ok |-> TRUE, name |-> Sub(t, j, k - 1),
                                     args |-> Sub(t, a, p - 1),
                                     block |-> TRUE,
                                     inner |-> Sub(t, c + 1, Min(qs) - 1),
                                     last |-> CloserEnd(t, Min(qs),
                                                        Sub(t, j, k - 1))]

(***************************************************************************)
(* _parse_args                                                             *)
(***************************************************************************)
\* shlex.split(args_str): POSIX rules with whitespace_split.  st is " "
\* between tokens, "a" inside a token, "q" inside double quotes.
RECURSIVE shlex_scan(_, _, _, _, _)
shlex_scan(t, i, st, tok, toks) ==
    IF i > Len(t)
    THEN IF st = "q" THEN [ok |-> FALSE, tokens |-> <<>>]   \* No closing quotation
         ELSE IF st = "a" THEN [ok |-> TRUE, tokens |-> Append(toks, tok)]
         ELSE [ok |-> TRUE, tokens |-> toks]
    ELSE LET x == t[i] IN
         IF st = "q"
         THEN IF x = DQuote THEN shlex_scan(t, i + 1, "a", tok, toks)
              ELSE shlex_scan(t, i + 1, "q", Append(tok, x), toks)
         ELSE IF IsSpace(x)
              THEN IF st = "a" THEN shlex_scan(t, i + 1, " ", <<>>, Append(toks, tok))
                   ELSE shlex_scan(t, i + 1, " ", <<>>, toks)
         ELSE IF x = DQuote THEN shlex_scan(t, i + 1, "q", tok, toks)
         ELSE shlex_scan(t, i + 1, "a", Append(tok, x), toks)

shlex_split(t) == shlex_scan(t, 1, " ", <<>>, <<>>)

HasEq(tok) == \E i \in 1..Len(tok) : tok[i] = Eq
FirstEq(tok) == Min({i \in 1..Len(tok) : tok[i] = Eq})

\* kwargs[key] = val on a dict kept as a sequence of pairs in insertion order
DictPut(kw, key, val) ==
    IF \E i \in 1..Len(kw) : kw[i].key = key
    THEN [i \in 1..Len(kw) |-> IF kw[i].key = key
                               THEN [key |-> key, val |-> val] ELSE kw[i]]
    ELSE Append(kw, [key |-> key, val |-> val])

HasKey(kw, key) == \E i \in 1..Len(kw) : kw[i].key = key
ValueOf(kw, key) == kw[CHOOSE i \in 1..Len(kw) : kw[i].key = key].val

LastEq(tok) == CHOOSE i \in 1..Len(tok) :
                 tok[i] = Eq /\ \A j \in (i + 1)..Len(tok) : tok[j] # Eq

split_at_last_eq(token) ==
    [key |-> Sub(token, 1, LastEq(token) - 1),
     val |-> Sub(token, LastEq(token) + 1, Len(token))]

\* shortcode_manager.py:93-95, token.split('=', 1)
split_eq(token) ==
    [key |-> Sub(token, 1, FirstEq(token) - 1),
     val |-> Sub(token, FirstEq(token) + 1, Len(token))]

\* shortcode_manager.py:85-98, the loop over the tokens
RECURSIVE sort_tokens(_, _, _, _)
sort_tokens(tokens, i, args, kwargs) ==
    IF i > Len(tokens) THEN [args |-> args, kwargs |-> kwargs]
    ELSE LET token == tokens[i] IN
         IF HasEq(token)
         THEN sort_tokens(tokens, i + 1, args,
                          DictPut(kwargs, split_eq(token).key, split_eq(token).val))
         ELSE sort_tokens(tokens, i + 1, Append(args, token), kwargs)

\* shortcode_manager.py:72-100
parse_args(args_str) ==
    LET sp == shlex_split(args_str)
    IN  IF ~sp.ok THEN [args |-> <<>>, kwargs |-> <<>>]     \* ValueError
        ELSE sort_tokens(sp.tokens, 1, <<>>, <<>>)

(***************************************************************************)
(* The handlers (generator/shortcodes) and the call of a handler with the  *)
(* positional and the named arguments.                                     *)
(***************************************************************************)
W(x) == <<x>>

\* the parameters of render() and how many of them have no default
Params(name) ==
    IF name = W("spoiler") THEN <<W("title"), W("content")>>      \* spoiler.py:1
    ELSE IF name = W("rating") THEN <<W("score"), W("max_score")>> \* rating.py:1
    ELSE IF name = W("email") THEN <<W("address"), W("text")>>    \* email.py:4
    ELSE <<W("shortname"), W("text")>>                            \* link.py:1
Required(name) ==
    IF name = W("spoiler") THEN 0 ELSE 1

\* the names _discover_shortcodes registers (shortcode_manager.py:21-40)
shortcodes == {W("spoiler"), W("rating"), W("link")}

IndexIn(seq, x) == CHOOSE i \in 1..Len(seq) : seq[i] = x
Among(seq, x) == \E i \in 1..Len(seq) : seq[i] = x

\* Python's argument binding: keyword errors first, in the order of the
\* keywords, then too many positional arguments, then missing ones
BindError(name, args, kwargs) ==
    LET ps == Params(name)
        badKw == {i \in 1..Len(kwargs) :
                    \/ ~Among(ps, kwargs[i].key)
                    \/ IndexIn(ps, kwargs[i].key) <= Len(args)}
    IN  IF badKw # {}
        THEN IF ~Among(ps, kwargs[Min(badKw)].key)
             THEN "got an unexpected keyword argument"
             ELSE "got multiple values for argument"
        ELSE IF Len(args) > Len(ps) THEN "positional arguments but"
        ELSE IF \E i \in 1..Required(name) :
                    i > Len(args) /\ ~HasKey(kwargs, ps[i])
             THEN "missing 1 required positional argument"
        ELSE ""

\* the value bound to the i-th parameter, or the default
Bound(name, args, kwargs, i, default) ==
    IF i <= Len(args) THEN args[i]
    ELSE IF HasKey(kwargs, Params(name)[i]) THEN ValueOf(kwargs, Params(name)[i])
    ELSE default

IsNumber(tok) == Len(tok) = 1 /\ tok[1] \in {"0", "4", "5", "9", "10"}
NumberOf(tok) ==
    IF tok[1] = "0" THEN 0 ELSE IF tok[1] = "4" THEN 4
    ELSE IF tok[1] = "5" THEN 5 ELSE IF tok[1] = "9" THEN 9 ELSE 10
\* f"{val}" of the float
FloatStr(tok) ==
    IF tok[1] = "0" THEN "0.0" ELSE IF tok[1] = "4" THEN "4.0"
    ELSE IF tok[1] = "5" THEN "5.0" ELSE IF tok[1] = "9" THEN "9.0" ELSE "10.0"

Repeat(x, n) == [i \in 1..n |-> x]

Html(h) == [ok |-> TRUE, html |-> h, err |-> ""]
Raise(e) == [ok |-> FALSE, html |-> <<>>, err |-> e]

\* spoiler.py:1-11
spoiler_render(title, content) ==
    Html(<<"\n", "<details>", "\n", "<summary>">> \o title
         \o <<"</summary>", "\n">> \o content \o <<"\n", "</details>", "\n">>)

\* rating.py:1-21
rating_render(score, max_score) ==
    IF ~IsNumber(score) \/ ~IsNumber(max_score)
    THEN Html(<<"<!-- Invalid rating: ">> \o score \o <<"/">> \o max_score
              \o <<" -->">>)
    ELSE LET val == NumberOf(score)
             maximum == NumberOf(max_score)
         IN  IF maximum = 0 THEN Raise("float division by zero")
             ELSE LET full == (val * 5) \div maximum
                      half == 2 * ((val * 5) % maximum) >= maximum
                      empty == 5 - full - (IF half THEN 1 ELSE 0)
                  IN  Html(<<"<span title=", FloatStr(score), "/",
                             FloatStr(max_score), ">">>
                           \o Repeat("[full]", full)
                           \o (IF half THEN <<"[half]">> ELSE <<>>)
                           \o Repeat("[empty]", IF empty > 0 THEN empty ELSE 0)
                           \o <<"</span>">>)

\* link.py:1-10
link_render(shortname, text) ==
    Html(<<"<internal-link shortname=">> \o shortname \o <<">">> \o text
         \o <<"</internal-link>">>)

\* the call of self.shortcodes[name] (shortcode_manager.py:67)
Call(name, args, kwargs) ==
    LET e == BindError(name, args, kwargs)
    IN  IF e # "" THEN Raise(e)
        ELSE IF name = W("spoiler")
            THEN spoiler_render(Bound(name, args, kwargs, 1, W("Spoiler")),
                                Bound(name, args, kwargs, 2, <<>>))
        ELSE IF name = W("rating")
            THEN rating_render(Bound(name, args, kwargs, 1, <<>>),
                               Bound(name, args, kwargs, 2, W("10")))
        ELSE link_render(Bound(name, args, kwargs, 1, <<>>),
                         Bound(name, args, kwargs, 2, <<>>))

\* shortcode_manager.py:70
ErrorComment(name, e) ==
    <<"<!-- Error rendering ">> \o name \o <<": ", e, " -->">>

(***************************************************************************)
(* process and _replace_match.  The result carries the text, the handler   *)
(* invocations in the order they happen, and, per stretch of the input,    *)
(* what became of it.                                                      *)
(***************************************************************************)
RECURSIVE process(_), scan(_, _), replace_match(_, _)

unknown_dropped(src) == <<>>

\* shortcode_manager.py:54-56, the name is not registered:
\* return match.group(0)
unknown_result(src) == src

content_unexpanded(kwargs, inner, expanded) ==
    DictPut(kwargs, W("content"), inner)

\* shortcode_manager.py:61-64: kwargs['content'] = self.process(inner_content)
bind_content(kwargs, inner, expanded) ==
    DictPut(kwargs, W("content"), expanded)

error_swallowed(name, e) == <<>>

\* shortcode_manager.py:68-70, the handler raised
error_result(name, e) == ErrorComment(name, e)

\* shortcode_manager.py:49-70; src is match.group(0)
replace_match(m, src) ==
    IF m.name \notin shortcodes
    THEN [out |-> unknown_result(src), calls |-> <<>>, kind |-> "unknown",
          err |-> ""]
    ELSE LET pa == parse_args(m.args)
             in == IF m.block THEN process(m.inner)
                   ELSE [out |-> <<>>, calls |-> <<>>, segs |-> <<>>]
             kwargs == IF m.block
                       THEN bind_content(pa.kwargs, m.inner, in.out)
                       ELSE pa.kwargs
             r == Call(m.name, pa.args, kwargs)
             call == [name |-> m.name, args |-> pa.args, kwargs |-> kwargs,
                      block |-> m.block, inner |-> m.inner, ok |-> r.ok,
                      err |-> r.err]
         IN  [out |-> IF r.ok THEN r.html ELSE error_result(m.name, r.err),
              calls |-> Append(in.calls, call),
              kind |-> IF r.ok THEN "ok" ELSE "error",
              err |-> r.err]

\* pattern.sub(self._replace_match, content) from position pos on
scan(t, pos) ==
    IF pos > Len(t) THEN [out |-> <<>>, calls |-> <<>>, segs |-> <<>>]
    ELSE LET m == MatchAt(t, pos) IN
         IF m.ok
         THEN LET src == Sub(t, pos, m.last)
                  r == replace_match(m, src)
                  rest == scan(t, m.last + 1)
              IN  [out |-> r.out \o rest.out,
                   calls |-> r.calls \o rest.calls,
                   segs |-> <<[kind |-> r.kind, name |-> m.name, src |-> src,
                               out |-> r.out, err |-> r.err]>> \o rest.segs]
         ELSE LET rest == scan(t, pos + 1)
              IN  [out |-> <<t[pos]>> \o rest.out,
                   calls |-> rest.calls,
                   segs |-> <<[kind |-> "text", name |-> <<>>, src |-> <<t[pos]>>,
                               out |-> <<t[pos]>>, err |-> ""]>> \o rest.segs]

\* the mutant of process for C25: the output is scanned once more
process_rescanned(content) ==
    IF content = <<>>
    THEN [out |-> content, calls |-> <<>>, segs |-> <<>>]
    ELSE LET r == scan(content, 1)
             again == scan(r.out, 1)
         IN  [out |-> again.out, calls |-> r.calls \o again.calls,
              segs |-> r.segs]

process_from_second(content) ==
    IF content = <<>>
    THEN [out |-> content, calls |-> <<>>, segs |-> <<>>]
    ELSE scan(content, 2)

\* shortcode_manager.py:42-47
process(content) ==
    IF content = <<>>
    THEN [out |-> content, calls |-> <<>>, segs |-> <<>>]
    ELSE scan(content, 1)

(***************************************************************************)
(* The expander run on documents put together from pieces of tag syntax.   *)
(***************************************************************************)
Pieces ==
    {<<"text">>,
     <<Open, " ", "spoiler", " ", DQuote, "T", DQuote, " ", Close>>,
     <<Open, " ", Slash, "spoiler", " ", Close>>,
     <<Open, " ", "rating", " ", "9", " ", Close>>,
     <<Open, "rating", Close>>,
     <<Open, " ", "nope", " ", "a", " ", "b", " ", Close>>,
     <<Open, Slash, "nope", Close>>,
     <<Open, " ", "link", " ", "s1", " ", Close>>,
     <<Open, " ", "nope", " ">>,
     <<Open, " ", "spoiler", " ", Open, "rating", " ", Close>>}

CacheIdle ==
    /\ disk = FileMissing
    /\ cache = Dict(EmptyMap)
    /\ got = NoCall
    /\ setLog = <<>>

BuildIdle ==
    /\ files = [k \in Keys |-> [content |-> "static", mtime |-> 1]]
    /\ site = 1
    /\ pc = "idle"
    /\ todo = <<>>
    /\ posts = <<>>
    /\ used = EmptyMap
    /\ start = FileMissing
    /\ crash = NoCrash
    /\ builds = 0
    /\ edits = 0
    /\ drafts = FALSE
    /\ SiteIdle

InitExpand == CacheIdle /\ BuildIdle /\ ExpandIdle /\ ArgsIdle /\ PureIdle

\* the author writes one more piece
Type(p) ==
    /\ res = NotRun
    /\ typed < MaxPieces
    /\ doc' = doc \o p
    /\ typed' = typed + 1
    /\ UNCHANGED <<res, cacheVars, buildVars, argVars, siteVars, pureVars>>

\* content_loader.py:99, self.shortcode_manager.process(content_raw)
Process ==
    /\ res = NotRun
    /\ res' = [kind |-> "ran"] @@ process(doc)
    /\ UNCHANGED <<doc, typed, cacheVars, buildVars, argVars, siteVars, pureVars>>

NextExpand ==
    \/ \E p \in Pieces : Type(p)
    \/ Process

SpecExpand == InitExpand /\ [][NextExpand]_vars

(***************************************************************************)
(* C6, C7, C8, C10                                                         *)
(***************************************************************************)
RECURSIVE JoinSrc(_), JoinOut(_)
JoinSrc(segs) == IF segs = <<>> THEN <<>> ELSE Head(segs).src \o JoinSrc(Tail(segs))
JoinOut(segs) == IF segs = <<>> THEN <<>> ELSE Head(segs).out \o JoinOut(Tail(segs))

HasLexeme(t, x) == \E i \in 1..Len(t) : t[i] = x

\* the document is cut into its matches and the text between them, and the
\* output is the replacements and that text, in order
Stitched ==
    /\ JoinSrc(res.segs) = doc
    /\ JoinOut(res.segs) = res.out

\* C6: for a tag whose name is not registered, process() leaves the whole
\* matched text (opener, inner text and closer) in the output as it is; the
\* text outside the match is unchanged and the other tags of the document
\* are expanded.
C6_UnknownTagVerbatim ==
    res.kind = "ran" =>
        /\ Stitched
        /\ \A i \in 1..Len(res.segs) :
              LET g == res.segs[i] IN
              /\ g.kind = "text" => g.out = g.src
              /\ (g.kind # "text" /\ g.name \notin shortcodes) => g.out = g.src
              /\ (g.kind # "text" /\ g.name \in shortcodes) =>
                    /\ g.kind \in {"ok", "error"}
                    /\ g.out # g.src
                    /\ g.out = process(g.src).out

\* an unknown block whose inner text holds a tag, and a registered tag
\* expanded in the same document
C6_Witness ==
    /\ res.kind = "ran"
    /\ \E i, j \in 1..Len(res.segs) :
          /\ res.segs[i].kind = "unknown"
          /\ MatchAt(res.segs[i].src, 1).block
          /\ HasLexeme(MatchAt(res.segs[i].src, 1).inner, Open)
          /\ res.segs[j].kind = "ok"

\* C7: when a handler raises for one tag, that tag alone is replaced by an
\* HTML comment carrying the tag name and the error; every other tag is
\* expanded as it is when it stands alone, and the text outside tags is
\* unchanged.
C7_HandlerErrorIsolated ==
    res.kind = "ran" =>
        /\ Stitched
        /\ \A i \in 1..Len(res.segs) :
              LET g == res.segs[i] IN
              /\ g.kind = "error" =>
                    /\ g.err # ""
                    /\ g.out = <<"<!-- Error rendering ">> \o g.name
                                 \o <<": ", g.err, " -->">>
              /\ g.kind = "text" => g.out = g.src
              /\ g.kind # "error" => g.out = process(g.src).out

\* a failing tag between two tags that are expanded
C7_Witness ==
    /\ res.kind = "ran"
    /\ \E i, j, k \in 1..Len(res.segs) :
          /\ i < j /\ j < k
          /\ res.segs[i].kind = "ok"
          /\ res.segs[j].kind = "error"
          /\ res.segs[k].kind = "ok"
          /\ res.segs[k].out = res.segs[i].out

\* some position of t starts a tag with a registered name
HasRegisteredTag(t) ==
    \E p \in 1..Len(t) : MatchAt(t, p).ok /\ MatchAt(t, p).name \in shortcodes

\* C8 as claimed: every tag inside the captured inner text is expanded
\* before the outer handler is invoked, and the handler is never called with
\* unexpanded registered tags in content.
C8_NoUnexpandedTagInContent ==
    res.kind = "ran" =>
        \A i \in 1..Len(res.calls) :
            res.calls[i].block =>
                ~HasRegisteredTag(ValueOf(res.calls[i].kwargs, W("content")))

\* C8 (amended): for a block tag with a registered handler, the captured
\* inner text is run through process() before the outer handler is invoked:
\* the handler invocations of the inner text are the ones just before the
\* outer one, every match of the inner text with a registered name is
\* replaced, and the outer handler receives the result of process() as its
\* named argument content.
C8_ContentIsProcessedInner ==
    res.kind = "ran" =>
        \A i \in 1..Len(res.calls) :
            res.calls[i].block =>
                LET in == process(res.calls[i].inner)
                    n == Len(in.calls)
                IN  /\ ValueOf(res.calls[i].kwargs, W("content")) = in.out
                    /\ n < i
                    /\ Sub(res.calls, i - n, i - 1) = in.calls
                    /\ \A j \in 1..Len(in.segs) :
                          in.segs[j].name \in shortcodes
                              => in.segs[j].kind \in {"ok", "error"}

\* spoiler is invoked after rating, with the stars of rating in content
C8_Witness ==
    /\ res.kind = "ran"
    /\ \E i \in 2..Len(res.calls) :
          /\ res.calls[i].name = W("spoiler")
          /\ res.calls[i].block
          /\ res.calls[i - 1].name = W("rating")
          /\ HasLexeme(res.calls[i].inner, "rating")
          /\ HasLexeme(ValueOf(res.calls[i].kwargs, W("content")), "[full]")
          /\ ~HasLexeme(ValueOf(res.calls[i].kwargs, W("content")), Open)

\* C10: process is idempotent once no tag marker remains: when process(x)
\* holds no "{{<", process(process(x)) equals process(x).
C10_IdempotentWithoutMarkers ==
    (res.kind = "ran" /\ ~HasLexeme(res.out, Open)) =>
        process(res.out).out = res.out

\* a document with tags whose expansion holds no marker
C10_Witness ==
    /\ res.kind = "ran"
    /\ ~HasLexeme(res.out, Open)
    /\ HasLexeme(doc, Open)
    /\ HasLexeme(res.out, "<details>")
    /\ \E i \in 1..Len(res.segs) : res.segs[i].kind = "error"

(***************************************************************************)
(* C25                                                                     *)
(***************************************************************************)
\* the name an opener at position p of t carries
NameAt(t, p) ==
    Sub(t, SkipSpaces(t, p + 1), SkipWords(t, SkipSpaces(t, p + 1)) - 1)

\* the number of handler invocations the first i segments caused; the last
\* of them is the invocation for segment i itself
RECURSIVE CallsUpTo(_, _)
CallsUpTo(segs, i) ==
    IF i = 0 THEN 0
    ELSE CallsUpTo(segs, i - 1)
         + (IF segs[i].kind \in {"ok", "error"}
            THEN Len(replace_match(MatchAt(segs[i].src, 1), segs[i].src).calls)
            ELSE 0)

\* C25: process is one substitution pass: the output is the text between
\* the matches and, for every match, what the handler returned, as it was
\* returned (tag syntax in it stays); no registered name has more handler
\* invocations than the input has openers with that name.
C25_SinglePass ==
    res.kind = "ran" =>
        /\ Stitched
        /\ CallsUpTo(res.segs, Len(res.segs)) = Len(res.calls)
        /\ \A i \in 1..Len(res.segs) :
              res.segs[i].kind = "ok" =>
                  LET own == res.calls[CallsUpTo(res.segs, i)]
                  IN  res.segs[i].out = Call(own.name, own.args, own.kwargs).html
        /\ \A n \in shortcodes :
              Cardinality({i \in 1..Len(res.calls) : res.calls[i].name = n})
                  <= Cardinality({p \in 1..Len(doc) :
                                    doc[p] = Open /\ NameAt(doc, p) = n})

\* a handler returned text with an opener in it, and the output holds a
\* tag with a registered name that another pass would expand
C25_Witness ==
    /\ res.kind = "ran"
    /\ \E i \in 1..Len(res.segs) :
          /\ res.segs[i].kind = "ok"
          /\ HasLexeme(res.segs[i].out, Open)
          /\ ~HasLexeme(res.segs[i].out, Close)
    /\ HasRegisteredTag(res.out)
    /\ scan(res.out, 1).out # res.out

(***************************************************************************)
(* C26                                                                     *)
(***************************************************************************)
\* the number of lexemes of the document the first i segments cover
RECURSIVE SrcLen(_, _)
SrcLen(segs, i) ==
    IF i = 0 THEN 0 ELSE SrcLen(segs, i - 1) + Len(segs[i].src)

\* the text holds an opener that carries the name
OpensInside(t, name) ==
    \E p \in 1..Len(t) : t[p] = Open /\ NameAt(t, p) = name

\* C26: a block's inner text ends at the first closer of its name, so it
\* holds no closer of that name, also when it holds an opener of the same
\* name; a closer of that name that follows the block at once is left in
\* the output as text.
C26_FirstCloserWins ==
    res.kind = "ran" =>
        /\ \A c \in 1..Len(res.calls) :
              res.calls[c].block =>
                  \A q \in 1..Len(res.calls[c].inner) :
                      CloserEnd(res.calls[c].inner, q, res.calls[c].name) = 0
        /\ \A i \in 1..Len(res.segs) :
              LET g == res.segs[i]
                  e == SrcLen(res.segs, i)
                  z == CloserEnd(doc, e + 1, g.name)
              IN  (g.kind \in {"ok", "error"} /\ z # 0) =>
                      \A x \in 1..(z - e) :
                          /\ i + x <= Len(res.segs)
                          /\ res.segs[i + x].kind = "text"
                          /\ res.segs[i + x].out = <<doc[e + x]>>

\* a block ran whose inner text opens a tag of the block's own name, and
\* the closer meant for the outer block is in the output
C26_Witness ==
    /\ res.kind = "ran"
    /\ \E c \in 1..Len(res.calls) :
          /\ res.calls[c].block
          /\ res.calls[c].ok
          /\ OpensInside(res.calls[c].inner, res.calls[c].name)
          /\ \E q \in 1..Len(res.out) :
                CloserEnd(res.out, q, res.calls[c].name) # 0

(***************************************************************************)
(* _parse_args run on argument texts written lexeme by lexeme.             *)
(***************************************************************************)
ArgLexemes == {"a", "b", Eq, " ", DQuote}

InitArgs == CacheIdle /\ BuildIdle /\ ExpandIdle /\ ArgsIdle /\ PureIdle

TypeArg(x) ==
    /\ parsed = NotRun
    /\ Len(argtext) < MaxArgLen
    /\ argtext' = Append(argtext, x)
    /\ UNCHANGED <<parsed, cacheVars, buildVars, expandVars, siteVars, pureVars>>

\* shortcode_manager.py:58, self._parse_args(args_str)
ParseArgs ==
    /\ parsed = NotRun
    /\ parsed' = [kind |-> "ran"] @@ parse_args(argtext)
    /\ UNCHANGED <<argtext, cacheVars, buildVars, expandVars, siteVars, pureVars>>

NextArgs ==
    \/ \E x \in ArgLexemes : TypeArg(x)
    \/ ParseArgs

SpecArgs == InitArgs /\ [][NextArgs]_vars

(***************************************************************************)
(* C9                                                                      *)
(***************************************************************************)
Tokens == shlex_split(argtext).tokens
KeyOf(tok) == Sub(tok, 1, Min({i \in 1..Len(tok) : tok[i] = Eq}) - 1)
ValOf(tok) == Sub(tok, Min({i \in 1..Len(tok) : tok[i] = Eq}) + 1, Len(tok))
Positional == SelectSeq(Tokens, LAMBDA tok : ~HasEq(tok))

\* C9 as claimed: every token containing '=' becomes a named argument whose
\* key is the text before the first '=' and whose value is everything after
\* it; every token without '=' is a positional argument, in the original
\* order.
C9_EveryEqTokenIsNamed ==
    (parsed.kind = "ran" /\ shlex_split(argtext).ok) =>
        /\ parsed.args = Positional
        /\ \A i \in 1..Len(Tokens) :
              HasEq(Tokens[i]) =>
                  /\ HasKey(parsed.kwargs, KeyOf(Tokens[i]))
                  /\ ValueOf(parsed.kwargs, KeyOf(Tokens[i])) = ValOf(Tokens[i])

\* C9 (amended): every token containing '=' gives a named argument whose key
\* is the text before its first '='; the value of a key is everything after
\* the first '=' of the last token with that key; there is no other named
\* argument; every token without '=' is a positional argument, in the
\* original order.
C9_LastEqTokenWins ==
    (parsed.kind = "ran" /\ shlex_split(argtext).ok) =>
        /\ parsed.args = Positional
        /\ \A i \in 1..Len(Tokens) :
              HasEq(Tokens[i]) =>
                  /\ HasKey(parsed.kwargs, KeyOf(Tokens[i]))
                  /\ (\A j \in (i + 1)..Len(Tokens) :
                         HasEq(Tokens[j]) => KeyOf(Tokens[j]) # KeyOf(Tokens[i]))
                       => ValueOf(parsed.kwargs, KeyOf(Tokens[i])) = ValOf(Tokens[i])
        /\ \A n \in 1..Len(parsed.kwargs) :
              /\ \E i \in 1..Len(Tokens) :
                    HasEq(Tokens[i]) /\ KeyOf(Tokens[i]) = parsed.kwargs[n].key
              /\ \A o \in 1..Len(parsed.kwargs) :
                    parsed.kwargs[o].key = parsed.kwargs[n].key => o = n

\* the quoted token "a= b" became the named argument a with the value " b"
C9_Witness ==
    /\ parsed.kind = "ran"
    /\ argtext = <<DQuote, "a", Eq, " ", "b", DQuote>>
    /\ parsed.args = <<>>
    /\ parsed.kwargs = <<[key |-> <<"a">>, val |-> <<" ", "b">>]>>

(***************************************************************************)
(* Reference resolution (site_builder.py:634-659 and 713-743).  A URL is   *)
(* a sequence of lexemes, "/" and path segments; a page is a sequence of   *)
(* nodes, text and <internal-link> placeholders.                           *)
(***************************************************************************)
Url(segs, dir) ==
    LET RECURSIVE Join(_)
        Join(q) == IF q = <<>> THEN <<>> ELSE <<Slash, Head(q)>> \o Join(Tail(q))
    IN  Join(segs) \o (IF dir \/ segs = <<>> THEN <<Slash>> ELSE <<>>)

\* str.lstrip('/')
RECURSIVE lstrip_slash(_)
lstrip_slash(u) ==
    IF u # <<>> /\ Head(u) = Slash THEN lstrip_slash(Tail(u)) ELSE u

\* os.path.dirname: the text before the last "/", without trailing "/"
\* unless it is the root
dirname(u) ==
    LET slashes == {i \in 1..Len(u) : u[i] = Slash}
        RECURSIVE rstrip(_)
        rstrip(h) == IF h # <<>> /\ h[Len(h)] = Slash
                     THEN rstrip(SubSeq(h, 1, Len(h) - 1)) ELSE h
    IN  IF slashes = {} THEN <<>>
        ELSE LET head == SubSeq(u, 1, Max(slashes))
             IN  IF rstrip(head) = <<>> THEN head ELSE rstrip(head)

\* os.path.normpath on a relative path without "..": the segments
Segments(u) == SelectSeq(u, LAMBDA x : x # Slash /\ x # ".")

\* length of the common prefix of two segment lists
RECURSIVE CommonPrefix(_, _)
CommonPrefix(a, b) ==
    IF a # <<>> /\ b # <<>> /\ Head(a) = Head(b)
    THEN 1 + CommonPrefix(Tail(a), Tail(b)) ELSE 0

\* os.path.relpath(path, start) (site_builder.py:656): ".." for every
\* segment of start below the common prefix, then the rest of path, joined
\* by "/"; "." when nothing remains
relpath(path, start_dir) ==
    LET start_list == Segments(start_dir)
        path_list == Segments(path)
        i == CommonPrefix(start_list, path_list)
        rel_list == [k \in 1..(Len(start_list) - i) |-> ".."]
                    \o SubSeq(path_list, i + 1, Len(path_list))
        RECURSIVE Join(_)
        Join(q) == IF Len(q) = 1 THEN q ELSE <<Head(q), Slash>> \o Join(Tail(q))
    IN  IF rel_list = <<>> THEN <<".">> ELSE Join(rel_list)

\* site_builder.py:634-659
get_relative_path(from_url, to_url) ==
    LET from1 == IF from_url = <<>> \/ Head(from_url) # Slash
                 THEN <<Slash>> \o from_url ELSE from_url
        to1 == IF to_url = <<>> \/ Head(to_url) # Slash
               THEN <<Slash>> \o to_url ELSE to_url
        from_dir == IF from1[Len(from1)] = Slash THEN from1 ELSE dirname(from1)
        from2 == IF lstrip_slash(from_dir) = <<>> THEN <<".">>
                 ELSE lstrip_slash(from_dir)
        to2 == IF lstrip_slash(to1) = <<>> THEN <<".">> ELSE lstrip_slash(to1)
    IN  relpath(to2, from2)

\* the nodes of a rendered page
Text(v) == [kind |-> "text", v |-> v]
\* <internal-link shortname="...">string</internal-link> (link.py:6-10);
\* string is "" when the placeholder has no text
InternalLink(shortname, string) ==
    [kind |-> "internal-link", shortname |-> shortname, string |-> string]
Anchor(href, string) == [kind |-> "a", href |-> href, string |-> string]
BrokenSpan(string) ==
    [kind |-> "span", style |-> "color:red; font-weight:bold;", string |-> string]

\* the mutant of broken_link: the placeholder is dropped
broken_link_dropped(shortname) == Text("")

\* site_builder.py:737-740
broken_link(shortname) == BrokenSpan(<<"[Broken Link: ", shortname, "]">>)

\* site_builder.py:720-740: what one placeholder is replaced with
resolve_tag(tag, current_url, index) ==
    IF tag.shortname \in DOMAIN index.m
    THEN LET target_post == index.m[tag.shortname]
             href == IF current_url # <<>>
                     THEN get_relative_path(current_url, target_post.url)
                     ELSE target_post.url
         IN  Anchor(href, IF tag.string # "" THEN tag.string
                          ELSE target_post.title)
    ELSE broken_link(tag.shortname)

\* site_builder.py:713-743: BeautifulSoup parses the page, every
\* internal-link tag is replaced, the other nodes stay
resolve_internal_links(html, current_url, index) ==
    IF \A i \in 1..Len(html) : html[i].kind # "internal-link" THEN html
    ELSE [i \in 1..Len(html) |->
            IF html[i].kind = "internal-link"
            THEN resolve_tag(html[i], current_url, index)
            ELSE html[i]]

(***************************************************************************)
(* The resolver driven with pages put together from nodes, on a site with  *)
(* two items that have shortnames.                                         *)
(***************************************************************************)
MaxNodes == 3

ResolveIndex ==
    [kind |-> "index",
     m |-> [n \in {"s1", "s2"} |->
              IF n = "s1"
              THEN [url |-> Url(<<"posts", "s1">>, TRUE), title |-> "One"]
              ELSE [url |-> Url(<<"reviews", "s2">>, TRUE), title |-> "Two"]]]

\* current_url of an item page, of the first index page, of an item page
\* that refers to itself, and of the 404 page (site_builder.py:345, 409, 566)
PageUrls ==
    {Url(<<"posts", "other">>, TRUE), Url(<<>>, TRUE),
     Url(<<"posts", "s1">>, TRUE), Url(<<"404.html">>, FALSE)}

PageNodes ==
    {Text("<p>x</p>"), InternalLink("s1", ""), InternalLink("s1", "here"),
     InternalLink("s2", ""), InternalLink("gone", "")}

InitResolve ==
    /\ CacheIdle /\ BuildIdle /\ ExpandIdle /\ ArgsIdle
    /\ IndexIdle /\ RelatedIdle /\ StarsIdle /\ MailIdle /\ ReloadIdle /\ UrlsIdle
    /\ page_url \in PageUrls
    /\ page_nodes = <<>>
    /\ page_out = NotRun

\* the template and the item's HTML put one more node on the page
Place(node) ==
    /\ page_out = NotRun
    /\ Len(page_nodes) < MaxNodes
    /\ page_nodes' = Append(page_nodes, node)
    /\ UNCHANGED <<page_url, page_out, cacheVars, buildVars, siteVars,
                   expandVars, argVars, indexVars, relatedVars, starVars,
                   mailVars,
                   reloadVars,
                   urlVars>>

\* site_builder.py:673, self._resolve_internal_links(html, current_url)
ResolveLinks ==
    /\ page_out = NotRun
    /\ page_out' = [kind |-> "ran",
                    html |-> resolve_internal_links(page_nodes, page_url,
                                                    ResolveIndex)]
    /\ UNCHANGED <<page_url, page_nodes, cacheVars, buildVars, siteVars,
                   expandVars, argVars, indexVars, relatedVars, starVars,
                   mailVars,
                   reloadVars,
                   urlVars>>

NextResolve ==
    \/ \E node \in PageNodes : Place(node)
    \/ ResolveLinks

SpecResolve == InitResolve /\ [][NextResolve]_vars

(***************************************************************************)
(* C12                                                                     *)
(***************************************************************************)
\* the URL a browser opens for the reference href on the page base
\* (RFC 3986, 5.2): href is walked from the directory of base
UrlJoin(base, href) ==
    LET base_dir == IF base[Len(base)] = Slash THEN Segments(base)
                    ELSE Segments(dirname(base))
        RECURSIVE Walk(_, _)
        Walk(at, q) ==
            IF q = <<>> THEN at
            ELSE IF Head(q) \in {Slash, "."} THEN Walk(at, Tail(q))
            ELSE IF Head(q) = ".."
                THEN Walk(IF at = <<>> THEN at ELSE SubSeq(at, 1, Len(at) - 1),
                          Tail(q))
            ELSE Walk(Append(at, Head(q)), Tail(q))
    IN  IF href # <<>> /\ Head(href) = Slash
        THEN href
        ELSE Url(Walk(base_dir, href), href[Len(href)] \in {Slash, ".", ".."})

Found(node) ==
    node.kind = "internal-link" /\ node.shortname \in DOMAIN ResolveIndex.m

\* C12: a placeholder whose shortname is in the index is replaced by an
\* anchor whose href is the target item's URL made relative to the current
\* page: followed from the page it leads to the target's URL; from
\* /posts/other/ the href of the item at /posts/s1/ is ../s1/.
C12_HrefIsTargetUrlMadeRelative ==
    page_out.kind = "ran" =>
        \A i \in 1..Len(page_nodes) :
            Found(page_nodes[i]) =>
                LET target == ResolveIndex.m[page_nodes[i].shortname]
                    a == page_out.html[i]
                IN  /\ a.kind = "a"
                    /\ UrlJoin(page_url, a.href) = target.url
                    /\ (page_url = Url(<<"posts", "other">>, TRUE)
                          /\ page_nodes[i].shortname = "s1")
                         => a.href = <<"..", Slash, "s1", Slash>>

(***************************************************************************)
(* C13                                                                     *)
(***************************************************************************)
\* C13: a placeholder whose shortname is not in the index is replaced by a
\* marked fragment that names the shortname; the resolver returns the page,
\* with every other placeholder replaced by an anchor and every other node
\* as it was.
C13_BrokenReferenceIsMarked ==
    page_out.kind = "ran" =>
        /\ Len(page_out.html) = Len(page_nodes)
        /\ \A i \in 1..Len(page_nodes) :
              LET node == page_nodes[i]
                  out == page_out.html[i]
              IN  /\ (node.kind = "internal-link" /\ ~Found(node)) =>
                        /\ out.kind = "span"
                        /\ out.style # ""
                        /\ out.string = <<"[Broken Link: ", node.shortname, "]">>
                  /\ Found(node) =>
                        /\ out.kind = "a"
                        /\ out.string \in {node.string,
                                           ResolveIndex.m[node.shortname].title}
                  /\ node.kind = "text" => out = node

\* a page with a broken reference between two references that resolve
C13_Witness ==
    /\ page_out.kind = "ran"
    /\ Len(page_nodes) = 3
    /\ Found(page_nodes[1])
    /\ page_nodes[2] = InternalLink("gone", "")
    /\ Found(page_nodes[3])
    /\ page_out.html[3].kind = "a"

(***************************************************************************)
(* Pagination of the index (site_builder.py:350-424).                      *)
(***************************************************************************)
MaxIndexPosts == 12
MaxPerPage == 3

Num(p) == [kind |-> "int", v |-> p]

\* site_builder.py:354
total_pages_of(total_posts, per_page) == (total_posts + per_page - 1) \div per_page

\* site_builder.py:372-373
get_page_url(p) ==
    IF p = 1 THEN <<Slash>> ELSE <<Slash, "page", Slash, ToString(p), Slash>>

\* sorted(list(window_set)) (site_builder.py:385)
RECURSIVE sorted(_)
sorted(S) == IF S = {} THEN <<>> ELSE <<Min(S)>> \o sorted(S \ {Min(S)})

\* the mutant of insert_gaps: a gap marker between any two kept pages
gaps_everywhere(sorted_pages, last_p) ==
    [i \in 1..(2 * Len(sorted_pages) - 1) |->
        IF i % 2 = 1 THEN Num(sorted_pages[(i + 1) \div 2]) ELSE None]

\* site_builder.py:387-393: the loop that inserts None where two kept pages
\* are not adjacent
RECURSIVE insert_gaps(_, _)
insert_gaps(sorted_pages, last_p) ==
    IF sorted_pages = <<>> THEN <<>>
    ELSE LET p == Head(sorted_pages)
         IN  (IF last_p > 0 /\ p - last_p > 1 THEN <<None>> ELSE <<>>)
             \o <<Num(p)>> \o insert_gaps(Tail(sorted_pages), p)

\* the mutant of page_window: every page is listed
window_of_all_pages(total_pages, page_num) ==
    [p \in 1..total_pages |-> Num(p)]

\* site_builder.py:375-393
page_window(total_pages, page_num) ==
    IF total_pages <= 7 THEN [p \in 1..total_pages |-> Num(p)]
    ELSE LET window_set == {1, total_pages}
                 \cup {i \in (page_num - 2)..(page_num + 2) :
                         1 <= i /\ i <= total_pages}
         IN  insert_gaps(sorted(window_set), 0)

\* site_builder.py:395-404
pagination_pages(window, page_num) ==
    [i \in 1..Len(window) |->
        IF window[i] = None
        THEN [num |-> None, url |-> None, current |-> FALSE]
        ELSE [num |-> window[i], url |-> Str(get_page_url(window[i].v)),
              current |-> (window[i].v = page_num)]]

\* the mutant of page_posts: the slice runs one item too far
page_posts_one_more(total_posts, per_page, page_num) ==
    LET first_at == (page_num - 1) * per_page
        end_at == Min({first_at + per_page + 1, total_posts})
    IN  [i \in 1..(end_at - first_at) |-> first_at + i]

\* site_builder.py:357-359, posts[start:end]; the posts are named by their
\* place in the list, 1..total_posts
page_posts(total_posts, per_page, page_num) ==
    LET first_at == (page_num - 1) * per_page
        end_at == Min({first_at + per_page, total_posts})
    IN  [i \in 1..(end_at - first_at) |-> first_at + i]

\* site_builder.py:356-404: the context of one page of the index
pagination_of(total_posts, per_page, page_num) ==
    LET total_pages == total_pages_of(total_posts, per_page)
    IN  [kind |-> "ran",
         first |-> (page_num - 1) * per_page + 1,
         last |-> Min({(page_num - 1) * per_page + per_page, total_posts}),
         current_page |-> page_num,
         total_pages |-> total_pages,
         has_prev |-> page_num > 1,
         has_next |-> page_num < total_pages,
         window |-> page_window(total_pages, page_num),
         pages |-> pagination_pages(page_window(total_pages, page_num), page_num)]

InitIndex ==
    /\ CacheIdle /\ BuildIdle /\ ExpandIdle /\ ArgsIdle
    /\ ResolveIdle /\ RelatedIdle /\ StarsIdle /\ MailIdle /\ ReloadIdle /\ UrlsIdle
    /\ idx_total \in 0..MaxIndexPosts
    /\ idx_per_page \in 1..MaxPerPage
    /\ idx_page = 0
    /\ idx_pagination = NotRun
    /\ idx_written = <<>>

\* one turn of the loop of _render_index (site_builder.py:356-424)
RenderIndexPage ==
    /\ idx_page < total_pages_of(idx_total, idx_per_page)
    /\ idx_page' = idx_page + 1
    /\ idx_pagination' = pagination_of(idx_total, idx_per_page, idx_page')
    /\ idx_written' = Append(idx_written,
                             page_posts(idx_total, idx_per_page, idx_page'))
    /\ UNCHANGED <<idx_total, idx_per_page, cacheVars, buildVars, siteVars,
                   expandVars, argVars, resolveVars, relatedVars, starVars,
                   mailVars,
                   reloadVars,
                   urlVars>>

NextIndex == RenderIndexPage

SpecIndex == InitIndex /\ [][NextIndex]_vars

(***************************************************************************)
(* C28                                                                     *)
(***************************************************************************)
\* ceil(n / s) for s >= 1
CeilDiv(n, s) == CHOOSE k \in 0..n : k * s >= n /\ (k = 0 \/ (k - 1) * s < n)

\* the places (page, position on the page) written so far
Places == {pl \in (1..Len(idx_written)) \X (1..MaxPerPage) :
             pl[2] <= Len(idx_written[pl[1]])}

\* C28: _render_index partitions the n posts over pages of size s: it writes
\* one page per turn and stops after ceil(n/s) pages; every page holds
\* between 1 and s posts and every page but the last exactly s; no post is on
\* two places, after the last page every post is on one, and the posts keep
\* their order across the pages; the window of each page marks exactly one
\* entry as current, the page itself.
C28_IndexIsPartitioned ==
    LET last_page == CeilDiv(idx_total, idx_per_page) IN
    /\ Len(idx_written) = idx_page
    /\ idx_page <= last_page
    /\ idx_page >= total_pages_of(idx_total, idx_per_page) => idx_page = last_page
    /\ \A p \in 1..Len(idx_written) :
          /\ Len(idx_written[p]) \in 1..idx_per_page
          /\ p < last_page => Len(idx_written[p]) = idx_per_page
    /\ \A x \in 1..idx_total :
          LET at == {pl \in Places : idx_written[pl[1]][pl[2]] = x}
          IN  /\ Cardinality(at) <= 1
              /\ idx_page = last_page => Cardinality(at) = 1
    /\ \A pl \in Places : \A pm \in Places :
          (pl[1] < pm[1] \/ (pl[1] = pm[1] /\ pl[2] < pm[2]))
              => idx_written[pl[1]][pl[2]] < idx_written[pm[1]][pm[2]]
    /\ idx_pagination.kind = "ran" =>
          /\ Cardinality({i \in 1..Len(idx_pagination.pages) :
                            idx_pagination.pages[i].current}) = 1
          /\ \A i \in 1..Len(idx_pagination.pages) :
                idx_pagination.pages[i].current
                    => idx_pagination.pages[i].num = Num(idx_page)

\* the last of several pages has been written and it is not full
C28_Witness ==
    /\ idx_total = 7
    /\ idx_per_page = 3
    /\ idx_page = 3
    /\ Len(idx_written) = 3
    /\ idx_written[3] = <<7>>

(***************************************************************************)
(* C14                                                                     *)
(***************************************************************************)
\* the pages the reference keeps
Kept(total_pages, current_page) ==
    IF total_pages <= 7 THEN 1..total_pages
    ELSE {1, total_pages}
         \cup ((current_page - 2)..(current_page + 2) \cap 1..total_pages)

\* the reference window, page by page: a kept page stands for itself, the
\* first page of a run of pages that are not kept stands for one gap marker
RECURSIVE RefWindow(_, _, _)
RefWindow(total_pages, current_page, n) ==
    IF n > total_pages THEN <<>>
    ELSE (IF n \in Kept(total_pages, current_page) THEN <<Num(n)>>
          ELSE IF (n - 1) \in Kept(total_pages, current_page) THEN <<None>>
          ELSE <<>>)
         \o RefWindow(total_pages, current_page, n + 1)

\* C14: for every totalPages >= 1 and currentPage in 1..totalPages the
\* window of _render_index is the reference window: all pages when
\* totalPages <= 7, otherwise 1, totalPages and currentPage-2..currentPage+2
\* clipped to the range, ascending, with one gap marker between kept pages
\* that are not adjacent; for 10 pages and page 5 it is
\* [1, gap, 3, 4, 5, 6, 7, gap, 10].
C14_WindowIsReference ==
    idx_pagination.kind = "ran" =>
        /\ idx_pagination.window
             = RefWindow(idx_pagination.total_pages, idx_page, 1)
        /\ (idx_pagination.total_pages = 10 /\ idx_page = 5) =>
              idx_pagination.window
                = <<Num(1), None, Num(3), Num(4), Num(5), Num(6), Num(7), None,
                    Num(10)>>

\* page 5 of 10 has been rendered
C14_Witness ==
    /\ idx_pagination.kind = "ran"
    /\ idx_pagination.total_pages = 10
    /\ idx_page = 5
    /\ Len(idx_pagination.window) = 9

(***************************************************************************)
(* C15                                                                     *)
(***************************************************************************)
\* C15: every window holds page 1 and page totalPages, its page numbers
\* increase strictly, a gap marker is never first or last, never next to
\* another gap marker and never between two adjacent page numbers.
C15_WindowShape ==
    idx_pagination.kind = "ran" =>
        LET w == idx_pagination.window
            nums == SelectSeq(w, LAMBDA x : x # None)
        IN  /\ \E i \in 1..Len(w) : w[i] = Num(1)
            /\ \E i \in 1..Len(w) : w[i] = Num(idx_pagination.total_pages)
            /\ \A i \in 1..(Len(nums) - 1) : nums[i].v < nums[i + 1].v
            /\ w[1] # None /\ w[Len(w)] # None
            /\ \A i \in 2..(Len(w) - 1) :
                  w[i] = None =>
                      /\ w[i - 1] # None /\ w[i + 1] # None
                      /\ w[i + 1].v - w[i - 1].v > 1

\* a window with a gap on one side only: page 2 of 9
C15_Witness ==
    /\ idx_pagination.kind = "ran"
    /\ idx_pagination.total_pages = 9
    /\ idx_page = 2
    /\ idx_pagination.window
         = <<Num(1), Num(2), Num(3), Num(4), None, Num(9)>>

(***************************************************************************)
(* Related posts (site_builder.py:611-632).  all_posts is the list build() *)
(* keeps, newest first; tags are the sets the function makes of the lists. *)
(***************************************************************************)
MaxRelPosts == 5
DefaultLimit == 3

TagSets == {{}, {"x"}, {"x", "y"}, {"y", "z"}}
RelDates == {1, 2}

\* site_builder.py:623-624
overlap_of(current_post, post) == Cardinality(current_post.tags \cap post.tags)

\* site_builder.py:615-627: (overlap, post) for every other post that shares
\* a tag, in the order of all_posts
candidates_of(all_posts, current_post) ==
    LET RECURSIVE Collect(_)
        Collect(i) ==
            IF i > Len(all_posts) THEN <<>>
            ELSE (IF all_posts[i] # current_post
                     /\ overlap_of(current_post, all_posts[i]) > 0
                  THEN <<[overlap |-> overlap_of(current_post, all_posts[i]),
                          post |-> all_posts[i]]>>
                  ELSE <<>>) \o Collect(i + 1)
    IN  Collect(1)

\* the order of the keys (overlap, date) as tuples
KeyGeq(a, b) ==
    \/ a.overlap > b.overlap
    \/ a.overlap = b.overlap /\ a.post.date >= b.post.date

\* candidates.sort(key=..., reverse=True) (site_builder.py:630): stable,
\* greatest key first
RECURSIVE InsertByKey(_, _)
InsertByKey(sorted_list, x) ==
    IF sorted_list = <<>> THEN <<x>>
    ELSE IF KeyGeq(Head(sorted_list), x)
        THEN <<Head(sorted_list)>> \o InsertByKey(Tail(sorted_list), x)
        ELSE <<x>> \o sorted_list

RECURSIVE sort_candidates(_)
sort_candidates(candidates) ==
    IF candidates = <<>> THEN <<>>
    ELSE InsertByKey(sort_candidates(SubSeq(candidates, 1, Len(candidates) - 1)),
                     candidates[Len(candidates)])

\* the mutant of get_related_posts: the candidates are not sorted
related_unsorted(all_posts, current_post, limit) ==
    IF current_post.tags = {} THEN <<>>
    ELSE LET candidates == candidates_of(all_posts, current_post)
         IN  [k \in 1..Min({limit, Len(candidates)}) |-> candidates[k].post]

\* site_builder.py:611-632
get_related_posts(all_posts, current_post, limit) ==
    IF current_post.tags = {} THEN <<>>
    ELSE LET candidates == sort_candidates(candidates_of(all_posts, current_post))
         IN  [k \in 1..Min({limit, Len(candidates)}) |-> candidates[k].post]

InitRelated ==
    /\ CacheIdle /\ BuildIdle /\ ExpandIdle /\ ArgsIdle
    /\ ResolveIdle /\ IndexIdle /\ StarsIdle /\ MailIdle /\ ReloadIdle /\ UrlsIdle
    /\ rel_posts = <<>>
    /\ rel_out = NoCall

\* one more item is loaded; the list stays sorted by date, newest first
\* (site_builder.py:159)
Publish(tags, date) ==
    /\ Len(rel_posts) < MaxRelPosts
    /\ rel_posts # <<>> => rel_posts[Len(rel_posts)].date >= date
    /\ rel_posts' = Append(rel_posts,
                           [slug |-> Len(rel_posts) + 1, tags |-> tags,
                            date |-> date])
    /\ rel_out' = NoCall
    /\ UNCHANGED <<cacheVars, buildVars, siteVars, expandVars, argVars,
                   resolveVars, indexVars, starVars,
                   mailVars,
                   reloadVars,
                   urlVars>>

\* site_builder.py:337, self._get_related_posts(post)
Related(i) ==
    /\ rel_out = NoCall
    /\ rel_out' = [kind |-> "call", current_post |-> rel_posts[i],
                   limit |-> DefaultLimit,
                   result |-> get_related_posts(rel_posts, rel_posts[i],
                                                DefaultLimit)]
    /\ UNCHANGED <<rel_posts, cacheVars, buildVars, siteVars, expandVars,
                   argVars, resolveVars, indexVars, starVars,
                   mailVars,
                   reloadVars,
                   urlVars>>

NextRelated ==
    \/ \E tags \in TagSets, date \in RelDates : Publish(tags, date)
    \/ \E i \in 1..Len(rel_posts) : Related(i)

SpecRelated == InitRelated /\ [][NextRelated]_vars

(***************************************************************************)
(* C16                                                                     *)
(***************************************************************************)
Shared(a, b) == Cardinality(a.tags \cap b.tags)

\* a goes before b, or ties with it, by shared tags and then by date
NotBehind(c, a, b) ==
    \/ Shared(c, a) > Shared(c, b)
    \/ Shared(c, a) = Shared(c, b) /\ a.date >= b.date

\* C16: _get_related_posts returns the first `limit` (3) items of the other
\* items that share a tag with the item, ordered by the number of shared
\* tags, greatest first, then by date, newest first; an item that shares no
\* tag and the item itself are never returned, and an item without tags
\* gets the empty list.
C16_RelatedIsTopOfSharedTags ==
    rel_out.kind = "call" =>
        LET c == rel_out.current_post
            r == rel_out.result
            others == {i \in 1..Len(rel_posts) :
                         rel_posts[i] # c /\ Shared(c, rel_posts[i]) > 0}
            InR(p) == \E k \in 1..Len(r) : r[k] = p
        IN  /\ c.tags = {} => r = <<>>
            /\ Len(r) = Min({rel_out.limit, Cardinality(others)})
            /\ \A k \in 1..Len(r) : \E i \in others : rel_posts[i] = r[k]
            /\ \A k, l \in 1..Len(r) : k # l => r[k] # r[l]
            /\ \A k \in 1..(Len(r) - 1) : NotBehind(c, r[k], r[k + 1])
            /\ \A i \in others :
                  ~InR(rel_posts[i]) =>
                      \A k \in 1..Len(r) : NotBehind(c, r[k], rel_posts[i])

\* an item with four candidates: the one sharing two tags is first although
\* it is the oldest, and one candidate is cut off
C16_Witness ==
    /\ rel_out.kind = "call"
    /\ Len(rel_posts) = 5
    /\ rel_out.current_post.tags = {"x", "y"}
    /\ Len(rel_out.result) = 3
    /\ Shared(rel_out.current_post, rel_out.result[1]) = 2
    /\ Shared(rel_out.current_post, rel_out.result[2]) = 1
    /\ rel_out.result[1].date < rel_out.result[2].date
    /\ \A i \in 1..Len(rel_posts) :
          rel_posts[i] # rel_out.current_post =>
              Shared(rel_out.current_post, rel_posts[i]) > 0

(***************************************************************************)
(* Review.star_string (models.py:129-138).  A rating is held in tenths:    *)
(* 85 is the rating 8.5.  Halving a float and taking off its integer part  *)
(* are exact, so the tenths give what the floats give.                     *)
(***************************************************************************)
MaxRating == 100

StarFull == "full-star"
StarHalf == "half-star"
StarEmpty == "empty-star"

\* the mutant of star_string: no half star, the rest is empty stars
stars_without_half(rating) ==
    Repeat(StarFull, rating \div 20) \o Repeat(StarEmpty, 5 - rating \div 20)

\* models.py:129-138; score = rating / 2, full = int(score),
\* half = score - full >= 0.5
star_string(rating) ==
    LET full == rating \div 20
        half == (rating % 20) >= 10
        empty == 5 - full - (IF half THEN 1 ELSE 0)
    IN  Repeat(StarFull, full) \o (IF half THEN <<StarHalf>> ELSE <<>>)
        \o (IF empty > 0 THEN Repeat(StarEmpty, empty) ELSE <<>>)

InitStars ==
    /\ CacheIdle /\ BuildIdle /\ ExpandIdle /\ ArgsIdle
    /\ ResolveIdle /\ IndexIdle /\ RelatedIdle /\ MailIdle /\ ReloadIdle /\ UrlsIdle
    /\ review_rating \in 0..MaxRating
    /\ review_stars = NotRun

\* a template reads post.star_string
ReadStars ==
    /\ review_stars = NotRun
    /\ review_stars' = [kind |-> "ran", glyphs |-> star_string(review_rating)]
    /\ UNCHANGED <<review_rating, cacheVars, buildVars, siteVars, expandVars,
                   argVars, resolveVars, indexVars, relatedVars,
                   mailVars,
                   reloadVars,
                   urlVars>>

NextStars == ReadStars

SpecStars == InitStars /\ [][NextStars]_vars

(***************************************************************************)
(* C20                                                                     *)
(***************************************************************************)
Count(glyphs, g) == Cardinality({i \in 1..Len(glyphs) : glyphs[i] = g})

\* C20: for every rating from 0 to 10 star_string is 5 glyphs: one full
\* star for every whole 2 points, then one half star iff the rest is at
\* least 1 point, then empty stars; 9 gives 4 full and 1 half, 8 gives 4
\* full and 1 empty.
C20_FiveGlyphs ==
    (review_stars.kind = "ran" /\ review_rating <= 100) =>
        LET g == review_stars.glyphs
            full == Count(g, StarFull)
            half == Count(g, StarHalf)
        IN  /\ Len(g) = 5
            /\ 20 * full <= review_rating /\ review_rating < 20 * (full + 1)
            /\ half = (IF review_rating - 20 * full >= 10 THEN 1 ELSE 0)
            /\ \A i \in 1..5 :
                  g[i] = (IF i <= full THEN StarFull
                          ELSE IF i = full + 1 /\ half = 1 THEN StarHalf
                          ELSE StarEmpty)
            /\ review_rating = 90 =>
                  g = <<StarFull, StarFull, StarFull, StarFull, StarHalf>>
            /\ review_rating = 80 =>
                  g = <<StarFull, StarFull, StarFull, StarFull, StarEmpty>>

\* the rating 9 has been rendered
C20_Witness ==
    /\ review_stars.kind = "ran"
    /\ review_rating = 90
    /\ Count(review_stars.glyphs, StarHalf) = 1

(***************************************************************************)
(* The email handler (generator/shortcodes/email.py) and process() on      *)
(* texts that hold email tags.  render() draws the id of its <span> with   *)
(* random.choice: the handler is a function of its arguments and of the    *)
(* state of the generator, which is seeded anew in every process.          *)
(***************************************************************************)
MaxMailPieces == 2

\* two of the 52^8 strings the eight draws of email.py:23 can give
Uids == {"mail-qWxLpZab", "mail-TnRcdYue"}

\* email.py:4-35
email_render(address, text, uid) ==
    Html(<<"<span id=", uid, ">", "<script>", "addr=">> \o address
         \o <<"txt=">> \o (IF text = <<>> THEN address ELSE text)
         \o <<"getElementById(", uid, ")", "</script>", "<noscript>">>)

\* _replace_match (shortcode_manager.py:49-70) for a tag named email.
\* render() has no parameter content: with a block the call raises whatever
\* the inner text expands to, so the inner text is bound as it is.
email_replace(m, uid) ==
    LET pa == parse_args(m.args)
        kwargs == IF m.block
                  THEN DictPut(pa.kwargs, W("content"), m.inner)
                  ELSE pa.kwargs
        e == BindError(m.name, pa.args, kwargs)
        r == IF e # "" THEN Raise(e)
             ELSE email_render(Bound(m.name, pa.args, kwargs, 1, <<>>),
                               Bound(m.name, pa.args, kwargs, 2, <<>>), uid)
    IN  IF r.ok THEN r.html ELSE error_result(m.name, r.err)

\* pattern.sub(self._replace_match, content) with email registered; uids
\* are the strings the generator gives, call after call
RECURSIVE mail_scan(_, _, _)
mail_scan(t, pos, uids) ==
    IF pos > Len(t) THEN <<>>
    ELSE LET m == MatchAt(t, pos) IN
         IF ~m.ok THEN <<t[pos]>> \o mail_scan(t, pos + 1, uids)
         ELSE IF m.name = W("email")
         THEN email_replace(m, Head(uids)) \o mail_scan(t, m.last + 1, Tail(uids))
         ELSE replace_match(m, Sub(t, pos, m.last)).out
              \o mail_scan(t, m.last + 1, uids)

MailPieces ==
    {<<"text">>,
     <<Open, " ", "email", " ", "a", " ", Close>>,
     <<Open, " ", "email", " ", "a", " ", "T", " ", Close>>,
     <<Open, " ", "email", " ", Close>>,
     <<Open, " ", "rating", " ", "9", " ", Close>>}

RECURSIVE Flatten(_)
Flatten(ps) == IF ps = <<>> THEN <<>> ELSE Head(ps) \o Flatten(Tail(ps))

InitMail ==
    /\ CacheIdle /\ BuildIdle /\ ExpandIdle /\ ArgsIdle
    /\ ResolveIdle /\ IndexIdle /\ RelatedIdle /\ StarsIdle /\ ReloadIdle /\ UrlsIdle
    /\ mail_doc \in {Flatten(ps) :
                       ps \in UNION {[1..n -> MailPieces] : n \in 0..MaxMailPieces}}
    /\ mail_runs = <<>>

\* one build without a cache: content_loader.py:99 on the unchanged source
ExpandMail(uids) ==
    /\ Len(mail_runs) < 2
    /\ mail_runs' = Append(mail_runs, mail_scan(mail_doc, 1, uids))
    /\ UNCHANGED <<mail_doc, cacheVars, buildVars, siteVars, expandVars,
                   argVars, resolveVars, indexVars, relatedVars, starVars,
                   reloadVars,
                   urlVars>>

NextMail == \E uids \in [1..MaxMailPieces -> Uids] : ExpandMail(uids)

SpecMail == InitMail /\ [][NextMail]_vars

\* C21: handlers are pure functions of their arguments: two expansions of
\* the same text with the same registry give the same output.
C21_HandlersArePure ==
    Len(mail_runs) = 2 => mail_runs[1] = mail_runs[2]

(***************************************************************************)
(* One source, unchanged, built twice: _parse_post with a fresh parse in   *)
(* the first build and with a cache hit in a later one                     *)
(* (content_loader.py:82-193, models.py:85-106).  Texts are sequences of   *)
(* lexemes.                                                                *)
(***************************************************************************)
MaxClock == 3
Absent == [kind |-> "absent"]
PyDate(d) == [kind |-> "date", day |-> d]
PyDatetime(d, t) == [kind |-> "datetime", day |-> d, time |-> t]
PyList(items) == [kind |-> "list", items |-> items]

DayTexts == {"2024-01-02"}
TimeTexts == {"00:00:00", "10:00:00"}

\* datetime.now() when the clock shows n
datetime_now(n) ==
    PyDatetime("2026-11-0" \o ToString(n), "12:00:00")

\* date.isoformat and datetime.isoformat
isoformat(v) ==
    IF v.kind = "date" THEN <<v.day>> ELSE <<v.day, "T", v.time>>

\* str(value)
py_str(v) ==
    IF v.kind = "str" THEN v.v
    ELSE IF v.kind = "date" THEN <<v.day>>
    ELSE IF v.kind = "datetime" THEN <<v.day, " ", v.time>>
    ELSE <<v.v>>

\* str.lower
py_lower(text) ==
    [i \in DOMAIN text |->
        IF text[i] = "A" THEN "a" ELSE IF text[i] = "T" THEN "t" ELSE text[i]]

\* dateutil's parser.parse: a datetime, or Absent where it raises
date_parser_parse(text) ==
    IF Len(text) = 1 /\ text[1] \in DayTexts
    THEN PyDatetime(text[1], "00:00:00")
    ELSE IF /\ Len(text) = 3
            /\ text[1] \in DayTexts
            /\ text[2] \in {"T", " "}
            /\ text[3] \in TimeTexts
    THEN PyDatetime(text[1], text[3])
    ELSE Absent

\* [t.strip() for t in tags_raw.split(',')]
RECURSIVE split_strip(_, _, _)
split_strip(text, i, cur) ==
    IF i > Len(text) THEN <<Str(cur)>>
    ELSE IF text[i] = "," THEN <<Str(cur)>> \o split_strip(text, i + 1, <<>>)
    ELSE IF text[i] = " " THEN split_strip(text, i + 1, cur)
    ELSE split_strip(text, i + 1, Append(cur, text[i]))

\* post_data.metadata of the sources the builds are run on
Metas ==
    [section : {"posts", "reviews"},
     title : {Absent, Str(<<"T">>), PyDatetime("2024-01-02", "10:00:00")},
     date : {Absent, Str(<<"2024-01-02">>), Str(<<"soon">>),
             PyDate("2024-01-02"), PyDatetime("2024-01-02", "10:00:00")},
     tags : {Absent, Str(<<"A", ",", " ", "b">>),
             PyList(<<Str(<<"A">>), Str(<<"b">>)>>),
             PyList(<<PyDatetime("2024-01-02", "10:00:00")>>)},
     category : {Absent, Str(<<"A">>), PyDate("2024-01-02")},
     rating : {Absent, Num(4)}]

MetaKeys == {"title", "date", "tags", "category", "rating"}

\* content_loader.py:117-122, frontmatter_serializable
serializable_of(fm) ==
    [k \in DOMAIN fm |->
        IF k \in MetaKeys /\ fm[k].kind \in {"date", "datetime"}
        THEN Str(isoformat(fm[k]))
        ELSE fm[k]]

\* json.dump can write the value
json_writes(v) ==
    /\ v.kind \notin {"date", "datetime"}
    /\ v.kind = "list" =>
          \A i \in 1..Len(v.items) : v.items[i].kind \notin {"date", "datetime"}

\* content_loader.py:136-149, date_obj
date_of(fm, n) ==
    LET date_val == fm.date IN
    IF date_val.kind = "str"
    THEN IF date_parser_parse(date_val.v) = Absent THEN datetime_now(n)
         ELSE date_parser_parse(date_val.v)
    ELSE IF date_val.kind = "datetime" THEN date_val
    ELSE IF date_val.kind = "date" THEN PyDatetime(date_val.day, "00:00:00")
    ELSE datetime_now(n)

\* content_loader.py:151-156
item_url(section, slug, url_slugs) ==
    IF section = "pages" THEN <<"/", slug, "/">>
    ELSE <<"/", IF section \in DOMAIN url_slugs THEN url_slugs[section]
                ELSE section, "/", slug, "/">>

\* content_loader.py:159-166
item_tags(fm) ==
    LET tags_raw == IF fm.tags = Absent THEN <<>>
                    ELSE IF fm.tags.kind = "str"
                    THEN split_strip(fm.tags.v, 1, <<>>)
                    ELSE fm.tags.items
    IN  [i \in DOMAIN tags_raw |-> py_lower(py_str(tags_raw[i]))]

\* content_loader.py:168-189 and ContentItem.from_frontmatter: the item
\* made from a frontmatter and an html, when the clock shows n
make_item(fm, html, n) ==
    [title |-> IF fm.title = Absent THEN Str(<<"Untitled">>) ELSE fm.title,
     date |-> date_of(fm, n),
     slug |-> "a",
     url |-> item_url(fm.section, "a", <<>>),
     content |-> html,
     type |-> fm.section,
     tags |-> item_tags(fm),
     category |-> IF fm.category = Absent THEN None ELSE fm.category,
     rating |-> IF fm.section = "reviews" /\ fm.rating # Absent
                THEN fm.rating ELSE None]

InitReload ==
    /\ CacheIdle /\ BuildIdle /\ ExpandIdle /\ ArgsIdle
    /\ ResolveIdle /\ IndexIdle /\ RelatedIdle /\ StarsIdle /\ MailIdle /\ UrlsIdle
    /\ meta \in Metas
    /\ now = 1
    /\ cached_data = <<>>
    /\ fresh_item = <<>>
    /\ hit_item = <<>>

\* the first build: cache miss, fresh parse, CacheManager.set, and save
\* (content_loader.py:95-127, 74); the snapshot holds the entry when
\* json.dump could write it (cache.py:57-61)
FirstBuild ==
    /\ fresh_item = <<>>
    /\ fresh_item' = <<make_item(meta, "<p>body</p>", now)>>
    /\ cached_data' =
          IF \A k \in MetaKeys : json_writes(serializable_of(meta)[k])
          THEN <<[html |-> "<p>body</p>",
                  frontmatter |-> serializable_of(meta)]>>
          ELSE <<>>
    /\ UNCHANGED <<meta, now, hit_item, cacheVars, buildVars, siteVars,
                   expandVars, argVars, resolveVars, indexVars, relatedVars,
                   starVars, mailVars,
                   urlVars>>

\* time passes between the builds
Tick ==
    /\ now < MaxClock
    /\ now' = now + 1
    /\ UNCHANGED <<meta, cached_data, fresh_item, hit_item, cacheVars,
                   buildVars, siteVars, expandVars, argVars, resolveVars,
                   indexVars, relatedVars, starVars, mailVars,
                   urlVars>>

\* a later build of the unchanged source: cache hit (content_loader.py:89-93)
LaterBuild ==
    /\ fresh_item # <<>>
    /\ cached_data # <<>>
    /\ hit_item' = <<make_item(cached_data[1].frontmatter,
                               cached_data[1].html, now)>>
    /\ UNCHANGED <<meta, now, cached_data, fresh_item, cacheVars, buildVars,
                   siteVars, expandVars, argVars, resolveVars, indexVars,
                   relatedVars, starVars, mailVars,
                   urlVars>>

NextReload == FirstBuild \/ Tick \/ LaterBuild

SpecReload == InitReload /\ [][NextReload]_vars

\* C27: the item a later build makes from the cache hit has the title,
\* date, slug, url, tags, category, type, content and rating of the item
\* the first build made from the fresh parse.
C27_HitItemIsFreshItem ==
    hit_item # <<>> => hit_item[1] = fresh_item[1]

(***************************************************************************)
(* The urls of the items of one build: load_content over a content         *)
(* directory (content_loader.py:49-70), the url of each item               *)
(* (content_loader.py:151-156) and the page _render_post writes for it     *)
(* (site_builder.py:322-348).                                              *)
(***************************************************************************)
\* the directory entries a content directory may hold, in the order
\* os.listdir gives them: a file section/slug.md or a directory
\* section/slug with a post.md in it
DirEntries ==
    <<[section |-> "posts", item |-> "a.md", is_dir |-> FALSE],
      [section |-> "posts", item |-> "a", is_dir |-> TRUE],
      [section |-> "posts", item |-> "b.md", is_dir |-> FALSE],
      [section |-> "blog", item |-> "a.md", is_dir |-> FALSE],
      [section |-> "pages", item |-> "a.md", is_dir |-> FALSE]>>

\* content_loader.py:60-66: slug = item for a directory, item[:-3] for a file
slug_of(e) ==
    IF e.is_dir THEN e.item
    ELSE IF e.item = "a.md" THEN "a" ELSE "b"

\* the path handed to _parse_post
post_file(e) ==
    IF e.is_dir THEN <<"content", e.section, e.item, "post.md">>
    ELSE <<"content", e.section, e.item>>

\* the slugs of the locale data (site_builder.py:45)
SlugMaps == {<<>>, [s \in {"posts"} |-> "blog"]}

InitUrls ==
    /\ CacheIdle /\ BuildIdle /\ ExpandIdle /\ ArgsIdle
    /\ ResolveIdle /\ IndexIdle /\ RelatedIdle /\ StarsIdle /\ MailIdle
    /\ ReloadIdle
    /\ slugs \in SlugMaps
    /\ unvisited \in {SelectSeq(DirEntries, LAMBDA e : e \in present) :
                        present \in SUBSET {DirEntries[i] : i \in 1..Len(DirEntries)}}
    /\ loaded = <<>>
    /\ rendered = 0
    /\ written = <<>>

\* load_content visits the next entry (content_loader.py:56-70)
LoadEntry ==
    /\ unvisited # <<>>
    /\ LET e == Head(unvisited)
       IN  loaded' = Append(loaded,
                            [path |-> post_file(e),
                             url |-> item_url(e.section, slug_of(e), slugs)])
    /\ unvisited' = Tail(unvisited)
    /\ UNCHANGED <<slugs, rendered, written, cacheVars, buildVars, siteVars,
                   expandVars, argVars, resolveVars, indexVars, relatedVars,
                   starVars, mailVars, reloadVars>>

\* build() calls _render_post for the next item (site_builder.py:322-348):
\* the page goes to output_dir / url / index.html
WritePost ==
    /\ unvisited = <<>>
    /\ rendered < Len(loaded)
    /\ rendered' = rendered + 1
    /\ written' = (loaded[rendered'].url :> loaded[rendered'].path) @@ written
    /\ UNCHANGED <<slugs, unvisited, loaded, cacheVars, buildVars, siteVars,
                   expandVars, argVars, resolveVars, indexVars, relatedVars,
                   starVars, mailVars, reloadVars>>

NextUrls == LoadEntry \/ WritePost

SpecUrls == InitUrls /\ [][NextUrls]_vars

====
